---- MODULE Spec2Model ----
(***************************************************************************)
(* A model of the VRM digital-signage avatar: the character state machine  *)
(* (CharacterStateMachine.js), the playback manager it drives              *)
(* (AnimationManager), the expression controller (ExpressionManager.js),   *)
(* and the pure retargeting functions of MixamoVRMMapper / VRMBoneAnalyzer *)
(* / AnimationLoader.                                                      *)
(*                                                                         *)
(* Time is in milliseconds, as Date.now() gives it.  Weights are in        *)
(* thousandths (1.0 = 1000).  Array indices are 1-based here (JavaScript's *)
(* index i is i+1), and 0 stands for null where an index is expected.      *)
(***************************************************************************)
EXTENDS Integers, Sequences, FiniteSets, TLC

(***************************************************************************)
(* Bounds of the exploration.                                              *)
(***************************************************************************)
\* Date.now() when the objects are constructed (any value above 7000 ms).
InitialClock == 10000
\* The clock advances in steps of TimeStep ms, up to Horizon ms after start.
TimeStep == 500
Horizon == 1000
\* At most this many idle clips are loaded.
MaxIdle == 2
\* At most this many time-outs and intervals are pending at once.
MaxTimers == 2
\* A source clip has at most MaxTracks tracks and is retargeted at most
\* MaxRetargets times.
MaxTracks == 2
MaxRetargets == 2
\* At most this many imports of VRMBoneAnalyzer.js are in flight.
MaxPending == 1
\* A hip track has at most MaxKeys keyframes and is corrected at most
\* MaxApplications times.
MaxKeys == 2
MaxApplications == 2

(***************************************************************************)
(* Program constants.                                                      *)
(***************************************************************************)
DefaultIdleInterval == 6000
DefaultMoveInterval == 5000
transitionDuration == 500
ExpressionDelay == 500
InitialIdleDelay == 500
fadeSteps == 10
fadeInterval == 100
blinkDuration == 150
InitialExpressionInterval == 3000

\* CharacterStateMachine.states
states == [IDLE |-> "idle", WALKING |-> "walking", TRANSITIONING |-> "transitioning"]
StateNames == {states.IDLE, states.WALKING, states.TRANSITIONING}

\* config.character.idleInterval / moveInterval as the configuration file
\* may give them; 0 stands for a missing (falsy) value.
ConfigIntervals == {0, 500}

\* ExpressionManager.basicExpressions: name, weight, duration.
basicExpressions ==
  << [name |-> "neutral",   weight |-> 1000, duration |-> 2000],
     [name |-> "happy",     weight |-> 800,  duration |-> 1500],
     [name |-> "sad",       weight |-> 600,  duration |-> 1800],
     [name |-> "surprised", weight |-> 700,  duration |-> 1200],
     [name |-> "angry",     weight |-> 500,  duration |-> 1600] >>
ExpressionNames == {basicExpressions[i].name : i \in DOMAIN basicExpressions} \cup {"blink"}

\* 2000 + Math.random() * 3000 and 3000 + Math.random() * 4000, sampled.
BlinkIntervals == {2000, 4000}
ExpressionIntervals == {3000, 6000}

\* Clips: the walk clip, the idle clips by index, and no clip.
NoClip == <<"none", 0>>
WalkClip == <<"walk", 0>>
IdleClip(i) == <<"idle", i>>

VARIABLES
  now,      \* Date.now()
  sm,       \* the CharacterStateMachine's fields
  am,       \* the AnimationManager's fields
  em,       \* the ExpressionManager's fields
  timers,   \* pending setTimeout / setInterval callbacks, in firing order
  call,     \* the last operation: its arguments, its result, the state before it
  vrm,      \* the loaded model: its humanoid joint table and its scene bones
  mapper,   \* the MixamoVRMMapper's fields
  loader,   \* the AnimationLoader's bone-mapping cache and pending imports
  theClip,  \* the animation clip at hand
  last,     \* the last retargeting operation: its input and what it returned
  cc,       \* the CharacterController's camera, boundaries and destination
  load,     \* a run of AnimationLoader.loadAnimations
  play      \* the AnimationManager's playback, action by action

smVars == <<now, sm, am, em, timers, call>>
rtVars == <<vrm, mapper, loader, theClip, last>>
appVars == <<cc, load, play>>
vars == <<smVars, rtVars, appVars>>

\* The values Math.random() leads to in one handler: the idle clip picked,
\* the expression picked, the next blink and expression intervals.  A handler
\* that draws only some of them is given the first value of the others.
NoRand ==
  [idle |-> 0, expr |-> 1,
   blinkInterval |-> CHOOSE b \in BlinkIntervals : \A c \in BlinkIntervals : b <= c,
   expressionInterval |->
     CHOOSE b \in ExpressionIntervals : \A c \in ExpressionIntervals : b <= c]
RandIdle == {[NoRand EXCEPT !.idle = i] : i \in 0 .. (MaxIdle - 1)}
RandExpr == {[NoRand EXCEPT !.expr = e] : e \in DOMAIN basicExpressions}
RandBlink == {[NoRand EXCEPT !.blinkInterval = b] : b \in BlinkIntervals}
RandUpdate ==
  {[NoRand EXCEPT !.idle = i, !.expr = e, !.expressionInterval = x] :
     i \in 0 .. (MaxIdle - 1), e \in DOMAIN basicExpressions, x \in ExpressionIntervals}

Min(a, b) == IF a < b THEN a ELSE b
Max(a, b) == IF a > b THEN a ELSE b

(***************************************************************************)
(* Timers.  A pending callback is a record; `timers' keeps them in the     *)
(* order the event loop runs them: by due time, then by creation.          *)
(***************************************************************************)
Timer(kind, name, clip, weight, step, due) ==
  [kind |-> kind, name |-> name, clip |-> clip, weight |-> weight,
   step |-> step, due |-> due]

RECURSIVE InsertByDue(_, _)
InsertByDue(ts, t) ==
  IF ts = <<>> THEN <<t>>
  ELSE IF Head(ts).due <= t.due THEN <<Head(ts)>> \o InsertByDue(Tail(ts), t)
  ELSE <<t>> \o ts

\* setTimeout(callback, delay) / setInterval(callback, delay)
setTimeout(w, t) == [w EXCEPT !.timers = InsertByDue(@, t)]

(***************************************************************************)
(* AnimationManager (playback manager).                                    *)
(***************************************************************************)
\* playAnimation(animation): stop the current action, start the clip's.
playAnimation(w, animation) ==
  IF animation = NoClip THEN w
  ELSE IF ~w.am.mixer THEN w
  ELSE [w EXCEPT !.am.currentAnimation = animation, !.am.fade = "none"]

\* playRandomIdleAnimation()
playRandomIdleAnimation(w, rand) ==
  IF w.am.idleCount = 0 THEN w
  ELSE LET index == (rand.idle % w.am.idleCount) + 1
       IN [playAnimation(w, IdleClip(index)) EXCEPT !.am.currentState = "idle"]

\* playWalkAnimation()
playWalkAnimation(w) ==
  IF ~w.am.hasWalk THEN w
  ELSE [playAnimation(w, WalkClip) EXCEPT !.am.currentState = "walk"]

(***************************************************************************)
(* ExpressionManager.                                                      *)
(***************************************************************************)
\* this.currentExpressions.has(expressionName); the map is kept as the set of
\* its <<name, weight, startTime, duration>> entries.
hasExpression(w, expressionName) ==
  \E e \in w.em.currentExpressions : e[1] = expressionName

\* clearExpressions(): zero every current expression, empty the map.
clearExpressions(w) ==
  IF w.em.status # "enabled" THEN w
  ELSE [w EXCEPT
          !.em.weights = [n \in ExpressionNames |->
                            IF hasExpression(w, n) THEN 0 ELSE @[n]],
          !.em.currentExpressions = {}]

\* setExpression(expressionName, weight, duration)
setExpression(w, expressionName, weight, duration) ==
  IF w.em.status # "enabled" THEN w
  ELSE LET c == clearExpressions(w)
           s == [c EXCEPT !.em.weights[expressionName] = weight,
                          !.em.currentExpressions =
                            {<<expressionName, weight, now, duration>>}]
       IN setTimeout(s, Timer("fadeOutExpression", expressionName, NoClip, 0, 0,
                              now + duration))

\* fadeOutExpression(expressionName): start the fade interval.
fadeOutExpression(w, expressionName) ==
  IF ~hasExpression(w, expressionName) THEN w
  ELSE LET expression == CHOOSE e \in w.em.currentExpressions : e[1] = expressionName
       IN setTimeout(w, Timer("fadeStep", expressionName, NoClip, expression[2], 0,
                              now + fadeInterval))

\* One firing of fadeOutExpression's interval callback; t is the interval.
fadeStep(w, t) ==
  LET currentStep == t.step + 1
      newWeight == (t.weight * (fadeSteps - currentStep)) \div fadeSteps
      s == [w EXCEPT !.em.weights[t.name] = Max(0, newWeight)]
  IN IF currentStep >= fadeSteps
       THEN [s EXCEPT !.em.weights[t.name] = 0,
                      !.em.currentExpressions = {e \in @ : e[1] # t.name}]
       ELSE setTimeout(s, [t EXCEPT !.step = currentStep, !.due = @ + fadeInterval])

\* playRandomExpression()
playRandomExpression(w, rand) ==
  IF w.em.status # "enabled" THEN w
  ELSE LET expression == basicExpressions[rand.expr]
       IN setExpression(w, expression.name, expression.weight, expression.duration)

\* Mutant of performBlink: a blink starts although one is under way.
performBlink_NoGuard(w) ==
  IF w.em.status # "enabled" THEN w
  ELSE setTimeout([w EXCEPT !.em.isBlinking = TRUE, !.em.weights["blink"] = 1000],
                  Timer("blinkEnd", "blink", NoClip, 0, 0, now + blinkDuration))

\* performBlink()
performBlink(w) ==
  IF w.em.status # "enabled" \/ w.em.isBlinking THEN w
  ELSE setTimeout([w EXCEPT !.em.isBlinking = TRUE, !.em.weights["blink"] = 1000],
                  Timer("blinkEnd", "blink", NoClip, 0, 0, now + blinkDuration))

\* The time-out of performBlink.
blinkEnd(w, rand) ==
  [w EXCEPT !.em.weights["blink"] = 0, !.em.isBlinking = FALSE,
            !.em.blinkInterval = rand.blinkInterval]

\* idleExpressionLoop()
idleExpressionLoop(w, rand) ==
  IF w.em.status # "enabled" THEN w
  ELSE LET b == IF now - w.em.lastBlinkTime > w.em.blinkInterval
                  THEN [performBlink(w) EXCEPT !.em.lastBlinkTime = now]
                  ELSE w
       IN IF now - b.em.lastExpressionTime > b.em.expressionInterval
            THEN [playRandomExpression(b, rand) EXCEPT
                    !.em.lastExpressionTime = now,
                    !.em.expressionInterval = rand.expressionInterval]
            ELSE b

\* setWalkingExpression()
setWalkingExpression(w) ==
  IF w.em.status # "enabled" THEN w
  ELSE setExpression(w, "neutral", 800, 2000)

(***************************************************************************)
(* CharacterStateMachine.                                                  *)
(***************************************************************************)
\* this.stateMinDurations[state] || 0
minDuration(w, state) ==
  IF state \in DOMAIN w.sm.stateMinDurations THEN w.sm.stateMinDurations[state] ELSE 0

\* What the callback handed to smoothTransitionToAnimation does:
\* playWalkAnimation() for the walk clip, playAnimation(clip) for an idle clip.
animationCallback(w, clip) ==
  IF clip = WalkClip THEN playWalkAnimation(w) ELSE playAnimation(w, clip)

\* smoothTransitionToAnimation(animationCallback)
smoothTransitionToAnimation(w, clip) ==
  IF w.am.currentAnimation = NoClip THEN animationCallback(w, clip)
  ELSE setTimeout([w EXCEPT !.am.fade = "out"],
                  Timer("smoothTransition", "", clip, 0, 0,
                        now + (transitionDuration \div 2)))

\* The time-out of smoothTransitionToAnimation.
smoothTransitionTimeout(w, clip) ==
  LET c == animationCallback(w, clip)
  IN IF c.am.currentAnimation # NoClip THEN [c EXCEPT !.am.fade = "in"] ELSE c

\* The indices of the idle clips that are not in the cooldown set, in order.
availableAnimations(w) ==
  SelectSeq([i \in 1 .. w.am.idleCount |-> i],
            LAMBDA i : \A k \in DOMAIN w.sm.idleAnimationCooldown :
                          w.sm.idleAnimationCooldown[k] # i)

\* Mutant of playIdleAnimationChoose: the cooldown set drops the index just
\* added instead of the oldest one.
playIdleAnimationChoose_DropNewest(w, rand) ==
  LET available == availableAnimations(w)
      randomIndex == (rand.idle % Len(available)) + 1
      originalIndex == available[randomIndex]
      s == smoothTransitionToAnimation(w, IdleClip(originalIndex))
      added == Append(s.sm.idleAnimationCooldown, originalIndex)
      kept == IF Len(added) > Min(3, w.am.idleCount - 1)
                THEN SubSeq(added, 1, Len(added) - 1) ELSE added
  IN [s EXCEPT !.sm.idleAnimationCooldown = kept,
               !.sm.lastIdleAnimation = originalIndex]

\* playIdleAnimation(), once the cooldown set leaves a clip to choose.
playIdleAnimationChoose(w, rand) ==
  LET available == availableAnimations(w)
      randomIndex == (rand.idle % Len(available)) + 1
      originalIndex == available[randomIndex]
      s == smoothTransitionToAnimation(w, IdleClip(originalIndex))
      added == Append(s.sm.idleAnimationCooldown, originalIndex)
      kept == IF Len(added) > Min(3, w.am.idleCount - 1) THEN Tail(added) ELSE added
  IN [s EXCEPT !.sm.idleAnimationCooldown = kept,
               !.sm.lastIdleAnimation = originalIndex]

\* playIdleAnimation()
playIdleAnimation(w, rand) ==
  IF w.am.idleCount = 0 THEN w
  ELSE IF Len(availableAnimations(w)) = 0
    THEN playIdleAnimationChoose([w EXCEPT !.sm.idleAnimationCooldown = <<>>], rand)
    ELSE playIdleAnimationChoose(w, rand)

\* enterIdleState()
enterIdleState(w, rand) ==
  LET p == playIdleAnimation(w, rand)
  IN IF p.em.status # "null"
       THEN setTimeout(p, Timer("randomExpression", "", NoClip, 0, 0,
                                now + ExpressionDelay))
       ELSE p

\* enterWalkingState()
enterWalkingState(w) ==
  LET s == smoothTransitionToAnimation(w, WalkClip)
  IN IF s.em.status # "null" THEN setWalkingExpression(s) ELSE s

\* enterTransitioningState()
enterTransitioningState(w) == [w EXCEPT !.sm.isTransitioning = TRUE]

\* executeStateAction(state)
executeStateAction(w, state, rand) ==
  LET e == [w EXCEPT !.entered = Append(@, state)]
  IN CASE state = states.IDLE -> enterIdleState(e, rand)
       [] state = states.WALKING -> enterWalkingState(e)
       [] state = states.TRANSITIONING -> enterTransitioningState(e)
       [] OTHER -> w

\* Mutants of changeState: a dwell check that also rejects at exactly the
\* minimum dwell; no early return for the same state; a dwell check that
\* ignores force.
changeState_StrictDwell(w, newState, force, rand) ==
  IF ~force /\ w.sm.currentState = newState THEN [w EXCEPT !.ret = "undefined"]
  ELSE IF ~force /\ now - w.sm.stateStartTime <= minDuration(w, w.sm.currentState)
    THEN [w EXCEPT !.ret = "false"]
  ELSE LET c == [w EXCEPT !.sm.previousState = w.sm.currentState,
                          !.sm.currentState = newState,
                          !.sm.stateStartTime = now]
       IN [executeStateAction(c, newState, rand) EXCEPT !.ret = "true"]

changeState_NoSameStateCheck(w, newState, force, rand) ==
  IF ~force /\ now - w.sm.stateStartTime < minDuration(w, w.sm.currentState)
    THEN [w EXCEPT !.ret = "false"]
  ELSE LET c == [w EXCEPT !.sm.previousState = w.sm.currentState,
                          !.sm.currentState = newState,
                          !.sm.stateStartTime = now]
       IN [executeStateAction(c, newState, rand) EXCEPT !.ret = "true"]

changeState_ForceChecksDwell(w, newState, force, rand) ==
  IF ~force /\ w.sm.currentState = newState THEN [w EXCEPT !.ret = "undefined"]
  ELSE IF now - w.sm.stateStartTime < minDuration(w, w.sm.currentState)
    THEN [w EXCEPT !.ret = "false"]
  ELSE LET c == [w EXCEPT !.sm.previousState = w.sm.currentState,
                          !.sm.currentState = newState,
                          !.sm.stateStartTime = now]
       IN [executeStateAction(c, newState, rand) EXCEPT !.ret = "true"]

\* Mutant of changeState: no dwell check at all.
changeState_NoDwellCheck(w, newState, force, rand) ==
  IF ~force /\ w.sm.currentState = newState THEN [w EXCEPT !.ret = "undefined"]
  ELSE LET c == [w EXCEPT !.sm.previousState = w.sm.currentState,
                          !.sm.currentState = newState,
                          !.sm.stateStartTime = now]
       IN [executeStateAction(c, newState, rand) EXCEPT !.ret = "true"]

\* changeState(newState, force): the world after the call, with the value
\* returned in ret ("undefined" for the bare return).
changeState(w, newState, force, rand) ==
  IF ~force /\ w.sm.currentState = newState THEN [w EXCEPT !.ret = "undefined"]
  ELSE IF ~force /\ now - w.sm.stateStartTime < minDuration(w, w.sm.currentState)
    THEN [w EXCEPT !.ret = "false"]
  ELSE LET c == [w EXCEPT !.sm.previousState = w.sm.currentState,
                          !.sm.currentState = newState,
                          !.sm.stateStartTime = now]
       IN [executeStateAction(c, newState, rand) EXCEPT !.ret = "true"]

\* requestStateChange(newState)
requestStateChange(w, newState, rand) == changeState(w, newState, FALSE, rand)

\* forceStateChange(newState)
forceStateChange(w, newState, rand) == changeState(w, newState, TRUE, rand)

\* Mutant of checkAutoTransitions: flips only after more than the dwell.
checkAutoTransitions_Late(w, rand) ==
  IF now - w.sm.stateStartTime > minDuration(w, w.sm.currentState)
    THEN CASE w.sm.currentState = states.IDLE ->
                changeState(w, states.WALKING, FALSE, rand)
           [] w.sm.currentState = states.WALKING ->
                changeState(w, states.IDLE, FALSE, rand)
           [] OTHER -> w
    ELSE w

\* checkAutoTransitions()
checkAutoTransitions(w, rand) ==
  IF now - w.sm.stateStartTime >= minDuration(w, w.sm.currentState)
    THEN CASE w.sm.currentState = states.IDLE ->
                changeState(w, states.WALKING, FALSE, rand)
           [] w.sm.currentState = states.WALKING ->
                changeState(w, states.IDLE, FALSE, rand)
           [] OTHER -> w
    ELSE w

\* updateIdleState()
updateIdleState(w, rand) ==
  IF w.em.status # "null" THEN idleExpressionLoop(w, rand) ELSE w

\* updateTransitioningState()
updateTransitioningState(w, rand) ==
  IF w.sm.isTransitioning /\ now - w.sm.stateStartTime >= transitionDuration
    THEN changeState([w EXCEPT !.sm.isTransitioning = FALSE], states.IDLE, FALSE, rand)
    ELSE w

\* update()
update(w, rand) ==
  LET a == checkAutoTransitions(w, rand)
  IN CASE a.sm.currentState = states.IDLE -> updateIdleState(a, rand)
       [] a.sm.currentState = states.WALKING -> a
       [] a.sm.currentState = states.TRANSITIONING -> updateTransitioningState(a, rand)
       [] OTHER -> a

(***************************************************************************)
(* Retargeting: MixamoVRMMapper (main.js), VRMBoneAnalyzer and the bone    *)
(* mapping of the AnimationLoader (DebugPanel.js).                         *)
(***************************************************************************)
\* A keyframe value is u + e*eps, where eps is Math.cos(Math.PI / 2): about
\* 6.1e-17 and not 0.  Products drop the terms in eps^2.
Num(u, e) == [u |-> u, e |-> e]
plus(a, b) == Num(a.u + b.u, a.e + b.e)
minus(a, b) == Num(a.u - b.u, a.e - b.e)
times(a, b) == Num(a.u * b.u, a.u * b.e + a.e * b.u)

\* A value written into a track's Float32Array: beside a unit part that is
\* not 0, a part of the order of eps is below the resolution of a float.
toFloat32(a) == IF a.u # 0 THEN Num(a.u, 0) ELSE a

\* new THREE.Quaternion(x, y, z, w)
Quaternion(x, y, z, w) == [x |-> x, y |-> y, z |-> z, w |-> w]

\* Quaternion.multiplyQuaternions(a, b)
multiplyQuaternions(a, b) ==
  Quaternion(
    minus(plus(plus(times(a.x, b.w), times(a.w, b.x)), times(a.y, b.z)), times(a.z, b.y)),
    minus(plus(plus(times(a.y, b.w), times(a.w, b.y)), times(a.z, b.x)), times(a.x, b.z)),
    minus(plus(plus(times(a.z, b.w), times(a.w, b.z)), times(a.x, b.y)), times(a.y, b.x)),
    minus(minus(minus(times(a.w, b.w), times(a.x, b.x)), times(a.y, b.y)), times(a.z, b.z)))

\* quat.premultiply(q) and quat.multiply(q)
premultiply(quat, q) == multiplyQuaternions(q, quat)
multiply(quat, q) == multiplyQuaternions(quat, q)

\* A rotation that changes nothing, in the place of the half turn.
yRotation180_Identity == Quaternion(Num(0, 0), Num(0, 0), Num(0, 0), Num(1, 0))

\* new THREE.Quaternion().setFromAxisAngle(new THREE.Vector3(0, 1, 0), Math.PI):
\* x = 0 * sin, y = 1 * sin(PI / 2) = 1, z = 0 * sin, w = cos(PI / 2) = eps.
yRotation180 == Quaternion(Num(0, 0), Num(1, 0), Num(0, 0), Num(0, 1))

\* The loop of adjustHipRotation over the keyframes, four values each; i is
\* the position of the keyframe's x.
RECURSIVE adjustKeyframes(_, _, _)
adjustKeyframes(values, i, mapperOrder) ==
  IF i > Len(values) THEN values
  ELSE LET quat == Quaternion(values[i], values[i + 1], values[i + 2], values[i + 3])
           adjusted == IF mapperOrder THEN premultiply(quat, yRotation180)
                       ELSE multiply(quat, yRotation180)
       IN adjustKeyframes([values EXCEPT ![i] = toFloat32(adjusted.x),
                                         ![i + 1] = toFloat32(adjusted.y),
                                         ![i + 2] = toFloat32(adjusted.z),
                                         ![i + 3] = toFloat32(adjusted.w)],
                          i + 4, mapperOrder)

\* MixamoVRMMapper.adjustHipRotation(track): quat.premultiply(yRotation180)
adjustHipRotation(track) ==
  [track EXCEPT !.values = adjustKeyframes(track.values, 1, TRUE)]

\* AnimationLoader.adjustHipRotation(track): originalQuat.multiply(yRotation180)
loaderAdjustHipRotation(track) ==
  [track EXCEPT !.values = adjustKeyframes(track.values, 1, FALSE)]

\* The table of getMixamoToVRMBoneMap and addFingerBoneMapping: the humanoid
\* bone each Mixamo joint is looked up as.
mixamoToHumanoid ==
  [mixamorigHips |-> "hips", mixamorigSpine |-> "spine",
   mixamorigSpine1 |-> "chest", mixamorigSpine2 |-> "upperChest",
   mixamorigNeck |-> "neck", mixamorigHead |-> "head",
   mixamorigLeftShoulder |-> "leftShoulder", mixamorigLeftArm |-> "leftUpperArm",
   mixamorigLeftForeArm |-> "leftLowerArm", mixamorigLeftHand |-> "leftHand",
   mixamorigRightShoulder |-> "rightShoulder", mixamorigRightArm |-> "rightUpperArm",
   mixamorigRightForeArm |-> "rightLowerArm", mixamorigRightHand |-> "rightHand",
   mixamorigLeftUpLeg |-> "leftUpperLeg", mixamorigLeftLeg |-> "leftLowerLeg",
   mixamorigLeftFoot |-> "leftFoot", mixamorigLeftToeBase |-> "leftToes",
   mixamorigRightUpLeg |-> "rightUpperLeg", mixamorigRightLeg |-> "rightLowerLeg",
   mixamorigRightFoot |-> "rightFoot", mixamorigRightToeBase |-> "rightToes",
   mixamorigLeftHandThumb1 |-> "leftThumbProximal", mixamorigLeftHandThumb2 |-> "leftThumbIntermediate",
   mixamorigLeftHandThumb3 |-> "leftThumbDistal", mixamorigLeftHandIndex1 |-> "leftIndexProximal",
   mixamorigLeftHandIndex2 |-> "leftIndexIntermediate", mixamorigLeftHandIndex3 |-> "leftIndexDistal",
   mixamorigLeftHandMiddle1 |-> "leftMiddleProximal", mixamorigLeftHandMiddle2 |-> "leftMiddleIntermediate",
   mixamorigLeftHandMiddle3 |-> "leftMiddleDistal", mixamorigLeftHandRing1 |-> "leftRingProximal",
   mixamorigLeftHandRing2 |-> "leftRingIntermediate", mixamorigLeftHandRing3 |-> "leftRingDistal",
   mixamorigLeftHandPinky1 |-> "leftLittleProximal", mixamorigLeftHandPinky2 |-> "leftLittleIntermediate",
   mixamorigLeftHandPinky3 |-> "leftLittleDistal", mixamorigRightHandThumb1 |-> "rightThumbProximal",
   mixamorigRightHandThumb2 |-> "rightThumbIntermediate", mixamorigRightHandThumb3 |-> "rightThumbDistal",
   mixamorigRightHandIndex1 |-> "rightIndexProximal", mixamorigRightHandIndex2 |-> "rightIndexIntermediate",
   mixamorigRightHandIndex3 |-> "rightIndexDistal", mixamorigRightHandMiddle1 |-> "rightMiddleProximal",
   mixamorigRightHandMiddle2 |-> "rightMiddleIntermediate", mixamorigRightHandMiddle3 |-> "rightMiddleDistal",
   mixamorigRightHandRing1 |-> "rightRingProximal", mixamorigRightHandRing2 |-> "rightRingIntermediate",
   mixamorigRightHandRing3 |-> "rightRingDistal", mixamorigRightHandPinky1 |-> "rightLittleProximal",
   mixamorigRightHandPinky2 |-> "rightLittleIntermediate", mixamorigRightHandPinky3 |-> "rightLittleDistal"]

\* The table of generateAccurateBoneMapping: humanoid bone -> Mixamo joint.
vrmToMixamo ==
  [hips |-> "mixamorigHips", spine |-> "mixamorigSpine",
   chest |-> "mixamorigSpine1", upperChest |-> "mixamorigSpine2",
   neck |-> "mixamorigNeck", head |-> "mixamorigHead",
   leftShoulder |-> "mixamorigLeftShoulder", leftUpperArm |-> "mixamorigLeftArm",
   leftLowerArm |-> "mixamorigLeftForeArm", leftHand |-> "mixamorigLeftHand",
   rightShoulder |-> "mixamorigRightShoulder", rightUpperArm |-> "mixamorigRightArm",
   rightLowerArm |-> "mixamorigRightForeArm", rightHand |-> "mixamorigRightHand",
   leftUpperLeg |-> "mixamorigLeftUpLeg", leftLowerLeg |-> "mixamorigLeftLeg",
   leftFoot |-> "mixamorigLeftFoot", leftToes |-> "mixamorigLeftToeBase",
   rightUpperLeg |-> "mixamorigRightUpLeg", rightLowerLeg |-> "mixamorigRightLeg",
   rightFoot |-> "mixamorigRightFoot", rightToes |-> "mixamorigRightToeBase",
   leftThumbProximal |-> "mixamorigLeftHandThumb1", leftThumbIntermediate |-> "mixamorigLeftHandThumb2",
   leftThumbDistal |-> "mixamorigLeftHandThumb3", leftIndexProximal |-> "mixamorigLeftHandIndex1",
   leftIndexIntermediate |-> "mixamorigLeftHandIndex2", leftIndexDistal |-> "mixamorigLeftHandIndex3",
   leftMiddleProximal |-> "mixamorigLeftHandMiddle1", leftMiddleIntermediate |-> "mixamorigLeftHandMiddle2",
   leftMiddleDistal |-> "mixamorigLeftHandMiddle3", leftRingProximal |-> "mixamorigLeftHandRing1",
   leftRingIntermediate |-> "mixamorigLeftHandRing2", leftRingDistal |-> "mixamorigLeftHandRing3",
   leftLittleProximal |-> "mixamorigLeftHandPinky1", leftLittleIntermediate |-> "mixamorigLeftHandPinky2",
   leftLittleDistal |-> "mixamorigLeftHandPinky3", rightThumbProximal |-> "mixamorigRightHandThumb1",
   rightThumbIntermediate |-> "mixamorigRightHandThumb2", rightThumbDistal |-> "mixamorigRightHandThumb3",
   rightIndexProximal |-> "mixamorigRightHandIndex1", rightIndexIntermediate |-> "mixamorigRightHandIndex2",
   rightIndexDistal |-> "mixamorigRightHandIndex3", rightMiddleProximal |-> "mixamorigRightHandMiddle1",
   rightMiddleIntermediate |-> "mixamorigRightHandMiddle2", rightMiddleDistal |-> "mixamorigRightHandMiddle3",
   rightRingProximal |-> "mixamorigRightHandRing1", rightRingIntermediate |-> "mixamorigRightHandRing2",
   rightRingDistal |-> "mixamorigRightHandRing3", rightLittleProximal |-> "mixamorigRightHandPinky1",
   rightLittleIntermediate |-> "mixamorigRightHandPinky2", rightLittleDistal |-> "mixamorigRightHandPinky3"]

\* AnimationLoader.getFallbackBoneMapping()
getFallbackBoneMapping ==
  [mixamorigHips |-> "J_Bip_C_Hips", mixamorigSpine |-> "J_Bip_C_Spine",
   mixamorigSpine1 |-> "J_Bip_C_Chest", mixamorigSpine2 |-> "J_Bip_C_UpperChest",
   mixamorigNeck |-> "J_Bip_C_Neck", mixamorigHead |-> "J_Bip_C_Head",
   mixamorigLeftShoulder |-> "J_Bip_L_Shoulder", mixamorigLeftArm |-> "J_Bip_L_UpperArm",
   mixamorigLeftForeArm |-> "J_Bip_L_LowerArm", mixamorigLeftHand |-> "J_Bip_L_Hand",
   mixamorigRightShoulder |-> "J_Bip_R_Shoulder", mixamorigRightArm |-> "J_Bip_R_UpperArm",
   mixamorigRightForeArm |-> "J_Bip_R_LowerArm", mixamorigRightHand |-> "J_Bip_R_Hand",
   mixamorigLeftUpLeg |-> "J_Bip_L_UpperLeg", mixamorigLeftLeg |-> "J_Bip_L_LowerLeg",
   mixamorigLeftFoot |-> "J_Bip_L_Foot", mixamorigLeftToeBase |-> "J_Bip_L_ToeBase",
   mixamorigRightUpLeg |-> "J_Bip_R_UpperLeg", mixamorigRightLeg |-> "J_Bip_R_LowerLeg",
   mixamorigRightFoot |-> "J_Bip_R_Foot", mixamorigRightToeBase |-> "J_Bip_R_ToeBase",
   mixamorigLeftHandThumb1 |-> "J_Bip_L_Thumb1", mixamorigLeftHandThumb2 |-> "J_Bip_L_Thumb2",
   mixamorigLeftHandThumb3 |-> "J_Bip_L_Thumb3", mixamorigLeftHandIndex1 |-> "J_Bip_L_Index1",
   mixamorigLeftHandIndex2 |-> "J_Bip_L_Index2", mixamorigLeftHandIndex3 |-> "J_Bip_L_Index3",
   mixamorigLeftHandMiddle1 |-> "J_Bip_L_Middle1", mixamorigLeftHandMiddle2 |-> "J_Bip_L_Middle2",
   mixamorigLeftHandMiddle3 |-> "J_Bip_L_Middle3", mixamorigLeftHandRing1 |-> "J_Bip_L_Ring1",
   mixamorigLeftHandRing2 |-> "J_Bip_L_Ring2", mixamorigLeftHandRing3 |-> "J_Bip_L_Ring3",
   mixamorigLeftHandPinky1 |-> "J_Bip_L_Little1", mixamorigLeftHandPinky2 |-> "J_Bip_L_Little2",
   mixamorigLeftHandPinky3 |-> "J_Bip_L_Little3", mixamorigRightHandThumb1 |-> "J_Bip_R_Thumb1",
   mixamorigRightHandThumb2 |-> "J_Bip_R_Thumb2", mixamorigRightHandThumb3 |-> "J_Bip_R_Thumb3",
   mixamorigRightHandIndex1 |-> "J_Bip_R_Index1", mixamorigRightHandIndex2 |-> "J_Bip_R_Index2",
   mixamorigRightHandIndex3 |-> "J_Bip_R_Index3", mixamorigRightHandMiddle1 |-> "J_Bip_R_Middle1",
   mixamorigRightHandMiddle2 |-> "J_Bip_R_Middle2", mixamorigRightHandMiddle3 |-> "J_Bip_R_Middle3",
   mixamorigRightHandRing1 |-> "J_Bip_R_Ring1", mixamorigRightHandRing2 |-> "J_Bip_R_Ring2",
   mixamorigRightHandRing3 |-> "J_Bip_R_Ring3", mixamorigRightHandPinky1 |-> "J_Bip_R_Little1",
   mixamorigRightHandPinky2 |-> "J_Bip_R_Little2", mixamorigRightHandPinky3 |-> "J_Bip_R_Little3"]

\* The humanoid bones the tables know, and the way a model names their nodes:
\* as VRoid does (the names of the fallback table), as a Mixamo rig does, or
\* by the humanoid bone's own name.
HumanoidNames == DOMAIN vrmToMixamo
NodeSchemes == {"vroid", "mixamo", "plain"}
nodeName(scheme, bone) ==
  CASE scheme = "vroid" -> getFallbackBoneMapping[vrmToMixamo[bone]]
    [] scheme = "mixamo" -> vrmToMixamo[bone]
    [] scheme = "plain" -> bone

\* Bones of the scene that are no humanoid bones.
ExtraBones == {"J_Sec_Hair1_01"}

\* A loaded model: vrm.humanoid.humanBones restricted to the entries that
\* have a node, as bone -> node name, and the names of the scene's bones.
Model(scheme, present) ==
  [humanBones |-> [b \in present |-> nodeName(scheme, b)],
   bones |-> {nodeName(scheme, b) : b \in present} \cup ExtraBones]

\* The sets of humanoid bones a model may have a node for.
HumanoidChoices ==
  {HumanoidNames, HumanoidNames \ {"upperChest"}, {"hips", "spine"}, {}}
Models == {Model(s, p) : s \in NodeSchemes, p \in HumanoidChoices}

\* boneMap[boneName] of JavaScript, and the truth of a value in a condition.
Lookup(map, key) == IF key \in DOMAIN map THEN map[key] ELSE "undefined"
truthy(v) == v \notin {"null", "undefined", ""}

\* MixamoVRMMapper.analyzeVRMStructure(): vrmStructure.humanoidBones
analyzeVRMStructure(v) == [humanoidBones |-> v.humanBones]

\* MixamoVRMMapper.getVRMBoneByName(boneName)
getVRMBoneByName(v, boneName) ==
  IF boneName \in DOMAIN analyzeVRMStructure(v).humanoidBones
  THEN analyzeVRMStructure(v).humanoidBones[boneName]
  ELSE "null"

\* MixamoVRMMapper.getMixamoToVRMBoneMap(): the cached map, or a new one.
\* A cache is << >> while it is null or undefined, and <<map>> once it is set.
getMixamoToVRMBoneMap(m, v) ==
  IF m.cachedBoneMap # << >> THEN m.cachedBoneMap[1]
  ELSE [k \in DOMAIN mixamoToHumanoid |-> getVRMBoneByName(v, mixamoToHumanoid[k])]

\* VRMBoneAnalyzer.analyzeVRMBones(vrm): boneInfo.humanoidBones
analyzeVRMBones(v) == [humanoidBones |-> v.humanBones]

\* VRMBoneAnalyzer.generateAccurateBoneMapping(vrm)
generateAccurateBoneMapping(v) ==
  LET boneInfo == analyzeVRMBones(v)
      mapped == {b \in DOMAIN vrmToMixamo : b \in DOMAIN boneInfo.humanoidBones}
  IN IF DOMAIN boneInfo.humanoidBones = {} THEN << >>
     ELSE [k \in {vrmToMixamo[b] : b \in mapped} |->
             boneInfo.humanoidBones[CHOOSE b \in mapped : vrmToMixamo[b] = k]]

\* AnimationLoader.getBoneMapping(vrm): what it returns.  The generated map
\* arrives later, when the import resolves.
getBoneMapping(l) ==
  IF l.boneMappingCache # << >> /\ l.vrmInstanceCache = "vrm"
  THEN l.boneMappingCache[1]
  ELSE getFallbackBoneMapping

\* A track is its name, split at the dots (bone first, then the property),
\* and its flat array of values.
Track(name, values) == [name |-> name, values |-> values]

\* A track that is kept as it is, next to its retargeted copy.
retargetTrack_KeepsSource(track, boneMap) ==
  LET boneName == Head(track.name)
      propertyName == Tail(track.name)
      vrmBoneName == Lookup(boneMap, boneName)
  IN IF truthy(vrmBoneName)
     THEN << track, [track EXCEPT !.name = <<vrmBoneName>> \o propertyName] >>
     ELSE << >>

\* A track without a mapping that is kept under its own name.
retargetTrack_KeepsUnmapped(track, boneMap) ==
  LET boneName == Head(track.name)
      propertyName == Tail(track.name)
      vrmBoneName == Lookup(boneMap, boneName)
  IN IF truthy(vrmBoneName)
     THEN << [track EXCEPT !.name = <<vrmBoneName>> \o propertyName] >>
     ELSE << track >>

\* The body of retargetAnimation's loop: the tracks one source track adds to
\* retargetedTracks.
retargetTrack(track, boneMap) ==
  LET boneName == Head(track.name)
      propertyName == Tail(track.name)
      vrmBoneName == Lookup(boneMap, boneName)
      retargetedTrack == [track EXCEPT !.name = <<vrmBoneName>> \o propertyName]
  IN IF truthy(vrmBoneName)
     THEN IF boneName = "mixamorigHips" /\ propertyName = <<"quaternion">>
          THEN << adjustHipRotation(retargetedTrack) >>
          ELSE << retargetedTrack >>
     ELSE << >>

RECURSIVE retargetTracks(_, _)
retargetTracks(tracks, boneMap) ==
  IF tracks = << >> THEN << >>
  ELSE retargetTrack(Head(tracks), boneMap) \o retargetTracks(Tail(tracks), boneMap)

\* MixamoVRMMapper.retargetAnimation(srcClip, name).  A clip's name is the
\* sequence of its parts, the source name first and then the markers added to
\* it; << >> is the name argument left out (null).
retargetAnimation(m, v, srcClip, name) ==
  [name |-> IF name # << >> THEN name ELSE Append(srcClip.name, " (Retargeted)"),
   duration |-> srcClip.duration,
   tracks |-> retargetTracks(srcClip.tracks, getMixamoToVRMBoneMap(m, v))]

\* a / b of JavaScript for counts: the fraction, Infinity for a / 0 and NaN
\* for 0 / 0.
Divide(a, b) ==
  [kind |-> IF b # 0 THEN "number" ELSE IF a = 0 THEN "NaN" ELSE "Infinity",
   num |-> a, den |-> b]

\* MixamoVRMMapper.validateClip(clip)
validateClip(v, c) ==
  LET availableBones == v.bones
      validTracks == SelectSeq(c.tracks, LAMBDA t : Head(t.name) \in availableBones)
      invalidTracks == SelectSeq(c.tracks, LAMBDA t : Head(t.name) \notin availableBones)
  IN [valid |-> Len(validTracks),
      invalid |-> Len(invalidTracks),
      total |-> Len(c.tracks),
      validRatio |-> Divide(Len(validTracks), Len(c.tracks))]

\* The retargeting objects where nothing is loaded.
NoLast == [op |-> "none", input |-> "", ret |-> "", applied |-> << >>]
NoMapper == [cachedBoneMap |-> << >>]
NoLoader == [boneMappingCache |-> << >>, vrmInstanceCache |-> "undefined",
             pending |-> 0, vrmInstance |-> "null", vrmMapper |-> << >>]
\* AnimationLoader.setVRM(vrm)
loaderSetVRM(l) ==
  IF l.vrmInstance # "vrm"
  THEN [l EXCEPT !.vrmInstance = "vrm", !.vrmMapper = <<NoMapper>>]
  ELSE l

\* The mapper optimizeAnimationForVRM retargets with: the loader's own, or a
\* new one where it has none.
loaderMapper(l) == IF l.vrmMapper # << >> THEN l.vrmMapper[1] ELSE NoMapper

\* AnimationLoader.optimizeAnimationForVRM(animation)
optimizeAnimationForVRM(l, v, animation) ==
  IF l.vrmInstance = "null" THEN animation
  ELSE retargetAnimation(loaderMapper(l), v, animation,
                         Append(animation.name, "_retargeted"))

NoRetargeting ==
  /\ vrm = Model("vroid", {})
  /\ mapper = NoMapper
  /\ loader = NoLoader
  /\ theClip = [name |-> <<"none">>, duration |-> 0,
                tracks |-> << >>]
  /\ last = NoLast

\* The controller, the loading and the playback where there are none.
NoApp ==
  /\ cc = "none"
  /\ load = "none"
  /\ play = "none"

(***************************************************************************)
(* The state machine's specification: the objects as constructed, then any *)
(* interleaving of API calls, update ticks, timer firings and clock steps. *)
(***************************************************************************)
\* The last operation: which, its argument, the value it returned and the
\* entry actions it ran.
NoCall == [op |-> "none", target |-> "", ret |-> "", entered |-> <<>>]

\* The world a handler starts from.
World == [sm |-> sm, am |-> am, em |-> em, timers |-> timers,
          entered |-> <<>>, ret |-> ""]

\* The handler's result becomes the next state; at most MaxTimers pending.
Commit(w, op, target) ==
  /\ Len(w.timers) <= MaxTimers
  /\ sm' = w.sm
  /\ am' = w.am
  /\ em' = w.em
  /\ timers' = w.timers
  /\ call' = [op |-> op, target |-> target, ret |-> w.ret, entered |-> w.entered]
  /\ UNCHANGED <<now, rtVars, appVars>>

Init ==
  /\ now = InitialClock
  /\ \E idleInterval \in ConfigIntervals, moveInterval \in ConfigIntervals :
       sm = [currentState |-> states.IDLE,
             previousState |-> "null",
             stateStartTime |-> InitialClock,
             isTransitioning |-> FALSE,
             idleAnimationCooldown |-> <<>>,
             lastIdleAnimation |-> 0,
             stateMinDurations |->
               (states.IDLE :> (IF idleInterval # 0 THEN idleInterval
                                ELSE DefaultIdleInterval)) @@
               (states.WALKING :> (IF moveInterval # 0 THEN moveInterval
                                   ELSE DefaultMoveInterval))]
  /\ \E idleCount \in 0 .. MaxIdle, hasWalk \in BOOLEAN :
       am = [idleCount |-> idleCount, hasWalk |-> hasWalk, mixer |-> TRUE,
             currentAnimation |-> NoClip, fade |-> "none", currentState |-> "idle"]
  /\ \E status \in {"null", "disabled", "enabled"} :
     \E blinkInterval \in (IF status = "enabled" THEN BlinkIntervals ELSE {0}) :
       em = [status |-> status,
             weights |-> [n \in ExpressionNames |-> 0],
             currentExpressions |-> {},
             lastExpressionTime |-> 0,
             expressionInterval |-> InitialExpressionInterval,
             lastBlinkTime |-> 0,
             blinkInterval |-> blinkInterval,
             isBlinking |-> FALSE]
  /\ timers = << Timer("initialIdle", "", NoClip, 0, 0, InitialClock + InitialIdleDelay) >>
  /\ call = NoCall
  /\ NoRetargeting
  /\ NoApp

\* An external call of requestStateChange(target).
RequestStateChange ==
  \E target \in StateNames, rand \in RandIdle :
    Commit(requestStateChange(World, target, rand), "requestStateChange", target)

\* An external call of forceStateChange(target).
ForceStateChange ==
  \E target \in StateNames, rand \in RandIdle :
    Commit(forceStateChange(World, target, rand), "forceStateChange", target)

\* One update tick of the state machine.
Update ==
  \E rand \in (IF em.status = "enabled" THEN RandUpdate ELSE RandIdle) :
    Commit(update(World, rand), "update", "")

\* What the time-out or interval t does when it fires.
fire(w, t, rand) ==
  CASE t.kind = "initialIdle" -> playRandomIdleAnimation(w, rand)
    [] t.kind = "smoothTransition" -> smoothTransitionTimeout(w, t.clip)
    [] t.kind = "randomExpression" -> playRandomExpression(w, rand)
    [] t.kind = "fadeOutExpression" -> fadeOutExpression(w, t.name)
    [] t.kind = "fadeStep" -> fadeStep(w, t)
    [] t.kind = "blinkEnd" -> blinkEnd(w, rand)

\* The random values the callback of a timer of this kind draws.
RandFor(kind) ==
  CASE kind = "initialIdle" -> RandIdle
    [] kind = "randomExpression" -> RandExpr
    [] kind = "blinkEnd" -> RandBlink
    [] OTHER -> {NoRand}

\* The event loop runs the first pending callback that is due.
FireTimer ==
  /\ timers # <<>>
  /\ Head(timers).due <= now
  /\ \E rand \in RandFor(Head(timers).kind) :
       Commit(fire([World EXCEPT !.timers = Tail(timers)], Head(timers), rand),
              "timer", Head(timers).kind)

\* The clock advances.
Tick ==
  /\ now + TimeStep <= InitialClock + Horizon
  /\ now' = now + TimeStep
  /\ call' = [NoCall EXCEPT !.op = "tick"]
  /\ UNCHANGED <<sm, am, em, timers, rtVars, appVars>>

Next == RequestStateChange \/ ForceStateChange \/ Update \/ FireTimer \/ Tick

Spec == Init /\ [][Next]_vars

(***************************************************************************)
(* Claims about the state machine, checked under Spec.                     *)
(***************************************************************************)
\* getStateDuration()
getStateDuration == now - sm.stateStartTime

\* The current state's minimum dwell has not elapsed yet / has elapsed.
DwellPending == getStateDuration < minDuration(World, sm.currentState)
DwellElapsed == getStateDuration >= minDuration(World, sm.currentState)

\* C1: for every target state, a requestStateChange issued before the
\* current state's minimum dwell has elapsed returns false and leaves the
\* current state and its entry timestamp unchanged.
C1_RequestBeforeDwell ==
  [][(call'.op = "requestStateChange" /\ DwellPending)
       => /\ call'.ret = "false"
          /\ sm'.currentState = sm.currentState
          /\ sm'.stateStartTime = sm.stateStartTime]_vars

\* C2 as stated: a requestStateChange issued once the dwell has elapsed
\* returns true, sets the current state to the target and the entry
\* timestamp to the time of the call, whatever the target.
C2_RequestAfterDwell_Original ==
  [][(call'.op = "requestStateChange" /\ DwellElapsed)
       => /\ call'.ret = "true"
          /\ sm'.currentState = call'.target
          /\ sm'.stateStartTime = now]_vars

\* C2 (amended): a requestStateChange for a target other than the current
\* state, issued once the dwell has elapsed, returns true, sets the current
\* state to the target and the entry timestamp to the time of the call.
C2_RequestAfterDwell ==
  [][(call'.op = "requestStateChange" /\ DwellElapsed
        /\ call'.target # sm.currentState)
       => /\ call'.ret = "true"
          /\ sm'.currentState = call'.target
          /\ sm'.previousState = sm.currentState
          /\ sm'.stateStartTime = now]_vars

\* An accepted request that left a state with a configured dwell, after time
\* has passed.
C2_Witness ==
  /\ call.op = "requestStateChange"
  /\ call.ret = "true"
  /\ sm.currentState = call.target
  /\ sm.previousState \in {states.IDLE, states.WALKING}
  /\ sm.stateStartTime = now
  /\ now > InitialClock

\* C3: a request for the state the machine is already in, without force, is
\* a no-op whatever the elapsed time: current state, previous state, entry
\* timestamp, playing clip and idle cooldown set are unchanged and no timer
\* is scheduled.
C3_SameStateNoOp ==
  [][(call'.op = "requestStateChange" /\ call'.target = sm.currentState)
       => /\ sm'.currentState = sm.currentState
          /\ sm'.previousState = sm.previousState
          /\ sm'.stateStartTime = sm.stateStartTime
          /\ am'.currentAnimation = am.currentAnimation
          /\ sm'.idleAnimationCooldown = sm.idleAnimationCooldown
          /\ timers' = timers]_vars

\* A same-state request made in Idle after the idle dwell has elapsed, with
\* a clip playing and a clip in the cooldown set.
C3_Witness ==
  /\ call.op = "requestStateChange"
  /\ call.target = sm.currentState
  /\ sm.currentState = states.IDLE
  /\ DwellElapsed
  /\ am.currentAnimation # NoClip
  /\ sm.idleAnimationCooldown # <<>>

\* The clip the entry action of `state' starts is playing, or its delayed
\* start is pending.
EntryClipStarted(clip) ==
  \/ am.currentAnimation = clip
  \/ \E k \in DOMAIN timers :
        timers[k].kind = "smoothTransition" /\ timers[k].clip = clip

\* C4: forceStateChange is never rejected by the dwell check: for any
\* elapsed time and any target, the current state included, it returns true,
\* sets the current state to the target, resets the entry timestamp and runs
\* the target's entry action.
C4_ForceNeverRejected ==
  call.op = "forceStateChange"
    => /\ call.ret = "true"
       /\ sm.currentState = call.target
       /\ sm.stateStartTime = now
       /\ call.entered = <<call.target>>
       /\ call.target = states.TRANSITIONING => sm.isTransitioning
       /\ (call.target = states.IDLE /\ am.idleCount > 0)
            => /\ sm.lastIdleAnimation \in 1 .. am.idleCount
               /\ EntryClipStarted(IdleClip(sm.lastIdleAnimation))
       /\ (call.target = states.WALKING /\ am.hasWalk) => EntryClipStarted(WalkClip)

\* A forced change to the state the machine was already in, made while the
\* six-second default idle dwell cannot have elapsed.
C4_Witness ==
  /\ call.op = "forceStateChange"
  /\ call.target = states.IDLE
  /\ sm.previousState = states.IDLE
  /\ sm.stateMinDurations[states.IDLE] = DefaultIdleInterval
  /\ sm.currentState = states.IDLE
  /\ sm.stateStartTime = now
  /\ am.idleCount > 0

\* Idle becomes Walking, Walking becomes Idle.
Flip(state) == IF state = states.IDLE THEN states.WALKING ELSE states.IDLE

\* C5: on every update tick at which the time spent in the current state
\* (Idle or Walking) is at least that state's minimum dwell, the state
\* flips, whatever requests were made, accepted or rejected before.
C5_AutoFlip ==
  [][(call'.op = "update" /\ sm.currentState \in {states.IDLE, states.WALKING}
        /\ DwellElapsed)
       => /\ sm'.currentState = Flip(sm.currentState)
          /\ sm'.previousState = sm.currentState
          /\ sm'.stateStartTime = now]_vars

\* An update tick that flipped Walking to Idle.
C5_Witness ==
  /\ call.op = "update"
  /\ sm.currentState = states.IDLE
  /\ sm.previousState = states.WALKING
  /\ sm.stateStartTime = now
  /\ now > InitialClock

\* C20: no non-forced path (requestStateChange, the automatic ping-pong
\* run by update, the Transitioning time-out, a timer callback) changes the
\* current state while less than the current state's minimum dwell has
\* elapsed since it was entered.  Every change stamps the entry time, so
\* between a change and the next non-forced change at least the dwell of
\* the state the earlier one entered elapses.
C20_NoEarlyNonForcedChange ==
  [][(/\ call'.op \in {"requestStateChange", "update", "timer"}
      /\ \/ sm'.currentState # sm.currentState
         \/ sm'.stateStartTime # sm.stateStartTime)
     => /\ DwellElapsed
        /\ sm'.stateStartTime = now
        /\ sm'.previousState = sm.currentState]_vars

\* The Transitioning time-out has brought the machine back to Idle.
C20_Witness ==
  /\ call.op = "update"
  /\ sm.previousState = states.TRANSITIONING
  /\ sm.currentState = states.IDLE
  /\ sm.stateStartTime = now

\* C25: with at least two idle clips loaded, an entry into the Idle state
\* never selects the idle clip index that the entry before it selected,
\* whatever the random picks; after the pick the cooldown set holds the
\* index just picked and never every idle index.
C25_NoImmediateIdleRepeat ==
  [][(/\ am.idleCount >= 2
      /\ \E k \in DOMAIN call'.entered : call'.entered[k] = states.IDLE)
     => /\ sm'.lastIdleAnimation \in 1 .. am.idleCount
        /\ sm'.lastIdleAnimation # sm.lastIdleAnimation
        /\ \E k \in DOMAIN sm'.idleAnimationCooldown :
              sm'.idleAnimationCooldown[k] = sm'.lastIdleAnimation
        /\ {sm'.idleAnimationCooldown[k] : k \in DOMAIN sm'.idleAnimationCooldown}
              # 1 .. am.idleCount]_vars

\* An entry into Idle that picked the first idle clip while the second one,
\* picked by the entry before it, is playing.
C25_Witness ==
  /\ am.idleCount >= 2
  /\ call.entered = <<states.IDLE>>
  /\ sm.previousState = states.IDLE
  /\ am.currentAnimation = IdleClip(2)
  /\ sm.lastIdleAnimation = 1
  /\ sm.idleAnimationCooldown = <<1>>

\* C30: getCurrentState() agrees with the clip being played after any
\* sequence of plays: it is 'walk' exactly when the current action was
\* started from the walk clip and 'idle' when it was started from an idle
\* clip, the idle clips the state machine starts through playAnimation
\* included.
C30_LabelAgreesWithClip ==
  am.currentAnimation # NoClip
    => /\ (am.currentState = "walk") <=> (am.currentAnimation = WalkClip)
       /\ (am.currentAnimation # WalkClip) => am.currentState = "idle"

\* C21: a timer callback scheduled by a transition that has since been
\* superseded changes nothing when it fires: the delayed clip start of
\* smoothTransitionToAnimation (for a state the machine has left), the
\* delayed random expression of enterIdleState (the machine being out of
\* Idle) and the fade interval of an expression that a later setExpression
\* cleared leave the playing clip and the expression weights as they are.
C21_StaleTimerNoOp ==
  [][(/\ call'.op = "timer"
      /\ LET t == Head(timers)
         IN \/ /\ t.kind = "smoothTransition"
               /\ sm.currentState # (IF t.clip = WalkClip THEN states.WALKING
                                     ELSE states.IDLE)
            \/ t.kind = "randomExpression" /\ sm.currentState # states.IDLE
            \/ t.kind = "fadeStep" /\ ~hasExpression(World, t.name))
     => /\ am'.currentAnimation = am.currentAnimation
        /\ em'.weights = em.weights]_vars

(***************************************************************************)
(* The expression cycle over a longer stretch of time: the state machine   *)
(* with an enabled expression manager, the frame loop's update for         *)
(* ExpressionHorizon ms, and the event loop, which goes on running the     *)
(* pending time-outs and intervals after that.  The event loop runs every  *)
(* callback that is due and time passes: both are weakly fair.             *)
(***************************************************************************)
\* Frames are drawn during this many ms after the start.
ExpressionHorizon == 2500
\* At most this many time-outs and intervals are pending at once here.
MaxCallbacks == 4

\* The model has expressions; one idle clip and a walk clip are loaded.
InitExpression ==
  /\ Init
  /\ em.status = "enabled"
  /\ am.idleCount = 1
  /\ am.hasWalk

\* The handler's result becomes the next state.
CommitExpression(w, op, target) ==
  /\ Len(w.timers) <= MaxCallbacks
  /\ sm' = w.sm
  /\ am' = w.am
  /\ em' = w.em
  /\ timers' = w.timers
  /\ call' = [op |-> op, target |-> target, ret |-> w.ret, entered |-> w.entered]
  /\ UNCHANGED <<now, rtVars, appVars>>

\* The random values of a frame: the first or the second basic expression,
\* either expression interval.
RandExpression ==
  {[NoRand EXCEPT !.expr = e, !.expressionInterval = x] :
     e \in {1, 2}, x \in ExpressionIntervals}

\* A frame of the animation loop.
UpdateExpression ==
  /\ now <= InitialClock + ExpressionHorizon
  /\ \E rand \in RandExpression : CommitExpression(update(World, rand), "update", "")

\* The event loop runs the first pending callback that is due.
FireTimerExpression ==
  /\ timers # <<>>
  /\ Head(timers).due <= now
  /\ \E rand \in RandFor(Head(timers).kind) \cap (RandExpression \cup RandBlink) :
       CommitExpression(fire([World EXCEPT !.timers = Tail(timers)], Head(timers), rand),
                        "timer", Head(timers).kind)

\* The clock advances by a step while frames are drawn, and to the next
\* pending callback's due time after that.
TickExpression ==
  /\ call' = [NoCall EXCEPT !.op = "tick"]
  /\ UNCHANGED <<sm, am, em, timers, rtVars, appVars>>
  /\ IF now + TimeStep <= InitialClock + ExpressionHorizon
       THEN now' = now + TimeStep
       ELSE /\ timers # <<>>
            /\ Head(timers).due > now
            /\ now' = Head(timers).due

NextExpression == UpdateExpression \/ FireTimerExpression \/ TickExpression

SpecExpression ==
  /\ InitExpression
  /\ [][NextExpression]_vars
  /\ WF_vars(FireTimerExpression)
  /\ WF_vars(TickExpression)

(***************************************************************************)
(* Claims about the expression cycle, checked under SpecExpression.        *)
(***************************************************************************)
\* C26: every expression set by setExpression is eventually faded out and
\* removed.  Its entry leaves the map either at the tenth step of a fade
\* that began after its scheduled duration, the weight then being exactly
\* 0, or because a later setExpression cleared it; an expression that is
\* not in the map has weight 0.
C26_ExpressionFadedOut ==
  /\ \A n \in ExpressionNames \ {"blink"} :
       hasExpression(World, n) ~> (~hasExpression(World, n) /\ em.weights[n] = 0)
  /\ [][\A e \in em.currentExpressions :
          (e \notin em'.currentExpressions /\ call'.op = "timer"
             /\ call'.target = "fadeStep")
            => /\ now' >= e[3] + e[4] + fadeSteps * fadeInterval
               /\ em'.weights[e[1]] = 0]_vars
  /\ [](\A n \in ExpressionNames \ {"blink"} :
          ~hasExpression(World, n) => em.weights[n] = 0)

\* The first part alone: an expression in the map is eventually out of it
\* with weight 0.
C26_EventuallyRemoved ==
  \A n \in ExpressionNames \ {"blink"} :
    hasExpression(World, n) ~> (~hasExpression(World, n) /\ em.weights[n] = 0)

\* The second part alone: a fade removes an entry only after the entry's
\* duration and the ten steps.
C26_RemovedAfterDuration ==
  [][\A e \in em.currentExpressions :
       (e \notin em'.currentExpressions /\ call'.op = "timer"
          /\ call'.target = "fadeStep")
         => /\ now' >= e[3] + e[4] + fadeSteps * fadeInterval
            /\ em'.weights[e[1]] = 0]_vars

\* The third part alone: an expression outside the map has weight 0.
C26_ClearedIsZero ==
  \A n \in ExpressionNames \ {"blink"} :
    ~hasExpression(World, n) => em.weights[n] = 0

\* C27: every blink that starts ends, and blinks never overlap.  A blink
\* starts only in an update tick that leaves the machine in Idle, with the
\* blink weight at 1.0; while it lasts exactly one blink time-out is
\* pending and no other blink starts; it ends only by that time-out, which
\* sets the weight back to 0; and the time-out always eventually runs.
C27_BlinkEndsNoOverlap ==
  /\ [](/\ Cardinality({k \in DOMAIN timers : timers[k].kind = "blinkEnd"})
             = (IF em.isBlinking THEN 1 ELSE 0)
        /\ em.isBlinking <=> (em.weights["blink"] = 1000)
        /\ ~em.isBlinking <=> (em.weights["blink"] = 0))
  /\ [][/\ (~em.isBlinking /\ em'.isBlinking)
            => (call'.op = "update" /\ sm'.currentState = states.IDLE)
        /\ (em.isBlinking /\ ~em'.isBlinking)
            => (call'.op = "timer" /\ call'.target = "blinkEnd")]_vars
  /\ em.isBlinking ~> ~em.isBlinking

\* An update tick whose idle loop found the blink interval over while the
\* blink before it had not ended yet: its time-out is overdue.
C27_Witness ==
  /\ call.op = "update"
  /\ sm.currentState = states.IDLE
  /\ em.isBlinking
  /\ em.lastBlinkTime = now
  /\ \E k \in DOMAIN timers :
       timers[k].kind = "blinkEnd" /\ timers[k].due + blinkDuration < now

(***************************************************************************)
(* The motion controller with its state machine: the controller's          *)
(* startMoving / stopMoving time-outs join the state machine's callbacks   *)
(* in `timers' (their step field carries the id setTimeout returned), and  *)
(* update() runs the state machine's update before the movement branch.    *)
(* Whether the model is still farther than 0.1 from its destination is an  *)
(* input of update: the geometry is that of the walk specification.  cc    *)
(* holds isMoving, moveTimeout (0 for null), the two configured intervals  *)
(* as the controller reads them (0 for a missing value: setTimeout then    *)
(* waits 0 ms) and the next timer id.                                      *)
(***************************************************************************)
\* Frames are drawn and the clock is followed for this many ms.
ControllerHorizon == 2000
\* setTimeout has handed out at most this many ids to the controller.
MaxMoveIds == 4

\* setTimeout(() => characterController.startMoving(), 1000)
StartDelay == 1000

MovementKinds == {"startMoving", "stopMoving"}

\* The pending movement time-outs.
movementTimers(ts) == {k \in DOMAIN ts : ts[k].kind \in MovementKinds}

\* clearTimeout(id)
clearTimeout(w, id) ==
  [w EXCEPT !.timers =
     SelectSeq(@, LAMBDA t : ~(t.kind \in MovementKinds /\ t.step = id))]

\* moveTimeout = setTimeout(callback, delay)
setMoveTimeout(w, kind, delay) ==
  LET id == w.cc.nextId
  IN setTimeout([w EXCEPT !.cc.moveTimeout = id, !.cc.nextId = id + 1],
                Timer(kind, "", NoClip, 0, id, now + delay))

\* startMoving()
startMoving(w, rand) ==
  LET c == IF w.cc.moveTimeout # 0 THEN clearTimeout(w, w.cc.moveTimeout) ELSE w
      m == [c EXCEPT !.cc.isMoving = TRUE]
      r == requestStateChange(m, states.WALKING, rand)
  IN setMoveTimeout(r, "stopMoving", r.cc.moveInterval)

\* stopMoving()
stopMoving(w, rand) ==
  LET m == [w EXCEPT !.cc.isMoving = FALSE]
      r == requestStateChange(m, states.IDLE, rand)
  IN setMoveTimeout(r, "startMoving", r.cc.idleInterval)

\* update(deltaTime): the state machine's update, then the movement branch;
\* far is distanceToTarget > 0.1.
controllerUpdate(w, far, rand) ==
  LET u == update(w, rand)
  IN IF u.cc.isMoving /\ ~far THEN stopMoving(u, rand) ELSE u

\* The world a handler of the controller starts from.
ControllerWorld ==
  [sm |-> sm, am |-> am, em |-> em, timers |-> timers,
   entered |-> <<>>, ret |-> "", cc |-> cc]

\* The handler's result becomes the next state.
CommitController(w, op, target) ==
  /\ Len(w.timers) <= MaxCallbacks
  /\ w.cc.nextId <= MaxMoveIds + 1
  /\ sm' = w.sm
  /\ am' = w.am
  /\ em' = w.em
  /\ timers' = w.timers
  /\ cc' = w.cc
  /\ call' = [op |-> op, target |-> target, ret |-> w.ret, entered |-> w.entered]
  /\ UNCHANGED <<now, rtVars, load, play>>

\* initializeCharacterController(): the controller and its state machine
\* are constructed, the first startMoving is scheduled.  The model has no
\* expressions; one idle clip and the walk clip are loaded.
InitController ==
  /\ now = InitialClock
  /\ \E idleInterval \in ConfigIntervals, moveInterval \in ConfigIntervals :
       /\ sm = [currentState |-> states.IDLE,
                previousState |-> "null",
                stateStartTime |-> InitialClock,
                isTransitioning |-> FALSE,
                idleAnimationCooldown |-> <<>>,
                lastIdleAnimation |-> 0,
                stateMinDurations |->
                  (states.IDLE :> (IF idleInterval # 0 THEN idleInterval
                                   ELSE DefaultIdleInterval)) @@
                  (states.WALKING :> (IF moveInterval # 0 THEN moveInterval
                                      ELSE DefaultMoveInterval))]
       /\ cc = [isMoving |-> FALSE, moveTimeout |-> 0,
                idleInterval |-> idleInterval, moveInterval |-> moveInterval,
                nextId |-> 2]
  /\ am = [idleCount |-> 1, hasWalk |-> TRUE, mixer |-> TRUE,
           currentAnimation |-> NoClip, fade |-> "none", currentState |-> "idle"]
  /\ em = [status |-> "disabled",
           weights |-> [n \in ExpressionNames |-> 0],
           currentExpressions |-> {},
           lastExpressionTime |-> 0,
           expressionInterval |-> InitialExpressionInterval,
           lastBlinkTime |-> 0,
           blinkInterval |-> 0,
           isBlinking |-> FALSE]
  /\ timers = << Timer("initialIdle", "", NoClip, 0, 0, InitialClock + InitialIdleDelay),
                 Timer("startMoving", "", NoClip, 0, 1, InitialClock + StartDelay) >>
  /\ call = NoCall
  /\ NoRetargeting
  /\ load = "none"
  /\ play = "none"

\* A frame of the animation loop: characterController.update(delta).
UpdateController ==
  \E far \in BOOLEAN :
    CommitController(controllerUpdate(ControllerWorld, far, NoRand), "update", "")

\* The event loop runs the first pending callback that is due.
FireTimerController ==
  /\ timers # <<>>
  /\ Head(timers).due <= now
  /\ LET t == Head(timers)
         w == [ControllerWorld EXCEPT !.timers = Tail(timers)]
     IN CommitController(
          CASE t.kind = "startMoving" -> startMoving(w, NoRand)
            [] t.kind = "stopMoving" -> stopMoving(w, NoRand)
            [] OTHER -> fire(w, t, NoRand),
          "timer", t.kind)

\* The clock advances.
TickController ==
  /\ now + TimeStep <= InitialClock + ControllerHorizon
  /\ now' = now + TimeStep
  /\ call' = [NoCall EXCEPT !.op = "tick"]
  /\ UNCHANGED <<sm, am, em, timers, rtVars, appVars>>

NextController == UpdateController \/ FireTimerController \/ TickController

SpecController == InitController /\ [][NextController]_vars

(***************************************************************************)
(* Claims about the controller, checked under SpecController.              *)
(***************************************************************************)
\* C28: at most one movement timer (a pending stopMoving or startMoving
\* time-out) is outstanding at any time, for every interleaving of
\* startMoving, arrival detected by update and timer firings.
C28_OneMovementTimer ==
  Cardinality(movementTimers(timers)) <= 1

\* C29: once the controller has started, isMoving is true exactly when the
\* state machine's current state is Walking.
C29_InStep ==
  cc.moveTimeout # 0 => (cc.isMoving <=> sm.currentState = states.WALKING)

(***************************************************************************)
(* The retargeting specification: a model and a clip as loaded, then any   *)
(* sequence of retargetAnimation (its result taking the clip's place, as   *)
(* in AnimationManager.setVRM and playAnimation) and validateClip.         *)
(***************************************************************************)
\* The state machine's objects where there are none.
NoStateMachine ==
  /\ now = 0
  /\ sm = "none"
  /\ am = "none"
  /\ em = "none"
  /\ timers = << >>
  /\ call = NoCall

\* The joints the tracks of a source clip name: two Mixamo joints of the
\* tables, a VRoid node and a node no table knows.
TrackBones == {"mixamorigHips", "mixamorigSpine2", "J_Bip_C_Hips", "Armature"}

\* Keyframe values as they come from a file: whole numbers, no eps part.
FileValues(q) == [i \in DOMAIN q |-> Num(q[i], 0)]
RetargetQuats == {<<0, 0, 0, 1>>, <<1, 0, 0, 0>>}
TrackInputs ==
  {Track(<<b, "position">>, FileValues(<<0, 1, 0>>)) : b \in TrackBones}
    \cup {Track(<<b, "quaternion">>, FileValues(q)) : b \in TrackBones, q \in RetargetQuats}
ClipInputs ==
  {[name |-> <<"clip">>, duration |-> 1, tracks |-> t] :
     t \in UNION {[1 .. n -> TrackInputs] : n \in 0 .. MaxTracks}}

InitRetarget ==
  /\ NoStateMachine
  /\ NoApp
  /\ vrm \in Models
  /\ mapper = NoMapper
  /\ loader \in {NoLoader, loaderSetVRM(NoLoader)}
  /\ theClip \in ClipInputs
  /\ last = NoLast

\* this.animations.walk = window.vrmMapper.retargetAnimation(this.animations.walk)
RetargetAnimation ==
  /\ Len(theClip.name) <= MaxRetargets
  /\ theClip' = retargetAnimation(mapper, vrm, theClip, << >>)
  /\ mapper' = [mapper EXCEPT !.cachedBoneMap = <<getMixamoToVRMBoneMap(mapper, vrm)>>]
  /\ last' = [op |-> "retargetAnimation", input |-> theClip, ret |-> theClip',
              applied |-> << >>]
  /\ UNCHANGED <<vrm, loader, smVars, appVars>>

\* window.vrmMapper.validateClip(animation)
ValidateClip ==
  /\ last' = [op |-> "validateClip", input |-> theClip,
              ret |-> validateClip(vrm, theClip), applied |-> << >>]
  /\ UNCHANGED <<vrm, mapper, loader, theClip, smVars, appVars>>

\* animation = this.optimizeAnimationForVRM(animation), as loadAnimation does
\* with the clip of an FBX file.
OptimizeAnimationForVRM ==
  /\ Len(theClip.name) <= MaxRetargets
  /\ theClip' = optimizeAnimationForVRM(loader, vrm, theClip)
  /\ loader' =
       IF loader.vrmInstance = "null" THEN loader
       ELSE [loader EXCEPT !.vrmMapper =
               << [cachedBoneMap |-> <<getMixamoToVRMBoneMap(loaderMapper(loader), vrm)>>] >>]
  /\ last' = [op |-> "optimizeAnimationForVRM", input |-> theClip, ret |-> theClip',
              applied |-> << >>]
  /\ UNCHANGED <<vrm, mapper, smVars, appVars>>

NextRetarget == RetargetAnimation \/ ValidateClip \/ OptimizeAnimationForVRM

SpecRetarget == InitRetarget /\ [][NextRetarget]_vars

(***************************************************************************)
(* The bone-map specification: a loaded model, then any sequence of calls  *)
(* of the three functions that build or return a bone map, and of the      *)
(* outcomes of the import that getBoneMapping starts.                      *)
(***************************************************************************)
InitBoneMap ==
  /\ NoStateMachine
  /\ NoApp
  /\ vrm \in Models
  /\ mapper = NoMapper
  /\ loader = NoLoader
  /\ theClip = [name |-> <<"none">>, duration |-> 0,
                tracks |-> << >>]
  /\ last = NoLast

\* mapper.getMixamoToVRMBoneMap()
GetMixamoToVRMBoneMap ==
  /\ mapper' = [mapper EXCEPT !.cachedBoneMap = <<getMixamoToVRMBoneMap(mapper, vrm)>>]
  /\ last' = [op |-> "getMixamoToVRMBoneMap", input |-> "",
              ret |-> getMixamoToVRMBoneMap(mapper, vrm), applied |-> << >>]
  /\ UNCHANGED <<vrm, loader, theClip, smVars, appVars>>

\* VRMBoneAnalyzer.generateAccurateBoneMapping(vrm)
GenerateAccurateBoneMapping ==
  /\ last' = [op |-> "generateAccurateBoneMapping", input |-> "vrm",
              ret |-> generateAccurateBoneMapping(vrm), applied |-> << >>]
  /\ UNCHANGED <<vrm, mapper, loader, theClip, smVars, appVars>>

\* loader.getBoneMapping(vrm): a call the cache does not answer starts an
\* import and returns the fallback map.
GetBoneMapping ==
  /\ IF loader.boneMappingCache # << >> /\ loader.vrmInstanceCache = "vrm"
     THEN UNCHANGED loader
     ELSE /\ loader.pending < MaxPending
          /\ loader' = [loader EXCEPT !.pending = @ + 1]
  /\ last' = [op |-> "getBoneMapping", input |-> "vrm", ret |-> getBoneMapping(loader),
              applied |-> << >>]
  /\ UNCHANGED <<vrm, mapper, theClip, smVars, appVars>>

\* import('./VRMBoneAnalyzer.js').then(...)
ImportResolved ==
  /\ loader.pending > 0
  /\ loader' = [loader EXCEPT !.boneMappingCache = <<generateAccurateBoneMapping(vrm)>>,
                              !.vrmInstanceCache = "vrm",
                              !.pending = @ - 1]
  /\ last' = [NoLast EXCEPT !.op = "importResolved"]
  /\ UNCHANGED <<vrm, mapper, theClip, smVars, appVars>>

\* import('./VRMBoneAnalyzer.js') ... .catch(...)
ImportRejected ==
  /\ loader.pending > 0
  /\ loader' = [loader EXCEPT !.boneMappingCache = <<getFallbackBoneMapping>>,
                              !.pending = @ - 1]
  /\ last' = [NoLast EXCEPT !.op = "importRejected"]
  /\ UNCHANGED <<vrm, mapper, theClip, smVars, appVars>>

NextBoneMap ==
  \/ GetMixamoToVRMBoneMap
  \/ GenerateAccurateBoneMapping
  \/ GetBoneMapping
  \/ ImportResolved
  \/ ImportRejected

SpecBoneMap == InitBoneMap /\ [][NextBoneMap]_vars

(***************************************************************************)
(* The hip-correction specification: a quaternion track of the hips, then  *)
(* any sequence of the two adjustHipRotation functions on it.              *)
(***************************************************************************)
\* Quaternions with components -1, 0, 1, at most two of them not 0.
QuatComponents == {-1, 0, 1}
Quats ==
  {q \in [1 .. 4 -> QuatComponents] : Cardinality({i \in 1 .. 4 : q[i] # 0}) <= 2}

\* track.values of the keyframes qs: x, y, z, w of each in turn.
Flatten(qs) ==
  [i \in 1 .. (4 * Len(qs)) |-> Num(qs[((i - 1) \div 4) + 1][((i - 1) % 4) + 1], 0)]

HipTrackInputs ==
  {Track(<<"mixamorigHips", "quaternion">>, Flatten(qs)) :
     qs \in UNION {[1 .. n -> Quats] : n \in 1 .. MaxKeys}}

InitHip ==
  /\ NoStateMachine
  /\ NoApp
  /\ vrm = Model("vroid", HumanoidNames)
  /\ mapper = NoMapper
  /\ loader = NoLoader
  /\ \E t \in HipTrackInputs :
       /\ theClip = [name |-> <<"clip">>, duration |-> 1,
                     tracks |-> <<t>>]
       /\ last = [NoLast EXCEPT !.input = t]

\* mapper.adjustHipRotation(track)
AdjustHipRotation ==
  /\ Len(last.applied) < MaxApplications
  /\ theClip' = [theClip EXCEPT !.tracks[1] = adjustHipRotation(@)]
  /\ last' = [last EXCEPT !.op = "adjustHipRotation",
                          !.applied = Append(@, "premultiply")]
  /\ UNCHANGED <<vrm, mapper, loader, smVars, appVars>>

\* loader.adjustHipRotation(track)
LoaderAdjustHipRotation ==
  /\ Len(last.applied) < MaxApplications
  /\ theClip' = [theClip EXCEPT !.tracks[1] = loaderAdjustHipRotation(@)]
  /\ last' = [last EXCEPT !.op = "adjustHipRotation",
                          !.applied = Append(@, "multiply")]
  /\ UNCHANGED <<vrm, mapper, loader, smVars, appVars>>

NextHip == AdjustHipRotation \/ LoaderAdjustHipRotation

SpecHip == InitHip /\ [][NextHip]_vars

(***************************************************************************)
(* Claims about retargeting, checked under SpecRetarget.                   *)
(***************************************************************************)
\* C6: retargeting never increases the track count: the clip that
\* retargetAnimation returns has at most as many tracks as the clip it was
\* given, whatever the clip and whatever the model's bone map.
C6_TrackCountNonIncreasing ==
  last.op = "retargetAnimation" =>
    Len(last.ret.tracks) <= Len(last.input.tracks)

\* A retargeting that kept one track of two and dropped the other.
C6_Witness ==
  /\ last.op = "retargetAnimation"
  /\ Len(last.input.tracks) = MaxTracks
  /\ Len(last.ret.tracks) = 1

\* C7: retargeting is idempotent: retargetAnimation, given a clip that it
\* produced itself, returns a clip with the same tracks (names, count and
\* keyframe values).
C7_RetargetIdempotent ==
  (last.op = "retargetAnimation" /\ Len(last.input.name) > 1) =>
    last.ret.tracks = last.input.tracks

\* C22: for a clip that was already retargeted at load time (by
\* optimizeAnimationForVRM), the re-retargeting of playAnimation,
\* animation = window.vrmMapper.retargetAnimation(animation), leaves its
\* tracks intact: the clip handed to the mixer has the same track names and
\* the same track count as the load-time clip.
C22_PlayTimeRetargetKeepsTracks ==
  (/\ last.op = "retargetAnimation"
   /\ Len(last.input.name) = 2
   /\ last.input.name[2] = "_retargeted") =>
    [i \in DOMAIN last.ret.tracks |-> last.ret.tracks[i].name]
      = [i \in DOMAIN last.input.tracks |-> last.input.tracks[i].name]

\* No track of the clip names a joint that the model's bone map has a node for.
NoTrackMapped(c) ==
  \A i \in DOMAIN c.tracks :
    ~truthy(Lookup(getMixamoToVRMBoneMap(NoMapper, vrm), Head(c.tracks[i].name)))

\* The last call retargeted its clip: retargetAnimation itself, or
\* optimizeAnimationForVRM of a loader that has a model.
Retargeted ==
  \/ last.op = "retargetAnimation"
  \/ last.op = "optimizeAnimationForVRM" /\ loader.vrmInstance = "vrm"

\* C11 as stated: retargeting a clip none of whose tracks is mapped returns
\* a clip with zero tracks whose name and duration are those of the
\* original clip.
C11_UnmappedClip_Original ==
  (Retargeted /\ NoTrackMapped(last.input)) =>
    /\ last.ret.tracks = << >>
    /\ last.ret.duration = last.input.duration
    /\ last.ret.name = last.input.name

\* C11, amended: retargeting a clip none of whose tracks is mapped returns
\* a clip with zero tracks and the duration of the original clip; its name
\* is the original name followed by the marker of the retargeting,
\* " (Retargeted)" from retargetAnimation and "_retargeted" from
\* optimizeAnimationForVRM.
C11_UnmappedClip ==
  (Retargeted /\ NoTrackMapped(last.input)) =>
    /\ last.ret.tracks = << >>
    /\ last.ret.duration = last.input.duration
    /\ last.ret.name =
         Append(last.input.name,
                IF last.op = "retargetAnimation" THEN " (Retargeted)"
                ELSE "_retargeted")

\* A source clip of MaxTracks tracks, none of them mapped, retargeted by the
\* loader.
C11_Witness ==
  /\ last.op = "optimizeAnimationForVRM"
  /\ loader.vrmInstance = "vrm"
  /\ Len(last.input.tracks) = MaxTracks
  /\ last.input.name = <<"clip">>
  /\ NoTrackMapped(last.input)

\* C9: validateClip returns validRatio = valid / total, a number between 0
\* and 1, and for a clip without tracks a defined number, 0, not NaN.
C9_ValidRatioDefined ==
  last.op = "validateClip" =>
    LET r == last.ret
    IN /\ r.validRatio.kind = "number"
       /\ r.validRatio.num = r.valid
       /\ r.validRatio.den = r.total
       /\ 0 <= r.validRatio.num
       /\ r.validRatio.num <= r.validRatio.den

(***************************************************************************)
(* Claims about the bone maps, checked under SpecBoneMap.                  *)
(***************************************************************************)
\* The node names of the model's humanoid joint table.
JointTable(v) == {v.humanBones[b] : b \in DOMAIN v.humanBones}

\* C10: every value of every bone map that generateAccurateBoneMapping,
\* getMixamoToVRMBoneMap and getBoneMapping return is the name of a node of
\* the loaded model's humanoid joint table (null standing for no value).
C10_BoneMapValuesInJointTable ==
  last.op \in {"generateAccurateBoneMapping", "getMixamoToVRMBoneMap", "getBoneMapping"} =>
    \A k \in DOMAIN last.ret :
      last.ret[k] # "null" => last.ret[k] \in JointTable(vrm)

(***************************************************************************)
(* Claims about the hip correction, checked under SpecHip.                 *)
(***************************************************************************)
\* The same correction has been applied twice to the track as loaded.
AppliedTwice ==
  \E variant \in {"premultiply", "multiply"} : last.applied = <<variant, variant>>

\* C8 as stated: the hip correction applied twice returns all four
\* components of every keyframe to their original values, in the mapper's
\* variant (premultiply) and in the loader's (multiply).
C8_HipRotationTwice_Original ==
  AppliedTwice => theClip.tracks[1].values = last.input.values

\* C8, amended: the hip correction applied twice returns every keyframe to
\* the negation of its quaternion, which is the same rotation: a component
\* that was not 0 returns to minus its value, and a component that was 0
\* returns to 0 up to a residue of the order of cos(PI / 2).
C8_HipRotationTwice ==
  AppliedTwice =>
    \A i \in DOMAIN last.input.values :
      LET original == last.input.values[i]
          twice == theClip.tracks[1].values[i]
      IN /\ twice.u = 0 - original.u
         /\ original.u # 0 => twice.e = 0

\* Two keyframes that are not 0, corrected twice.
C8_Witness ==
  /\ AppliedTwice
  /\ Len(last.input.values) = 4 * MaxKeys
  /\ \E i \in 1 .. 4 : last.input.values[i].u # 0
  /\ \E i \in 5 .. 8 : last.input.values[i].u # 0

(***************************************************************************)
(* The motion controller's rectangle and destinations.  Lengths are in     *)
(* thousandths of a world unit, the camera's distance in tenths, its       *)
(* aspect ratio in hundredths, its field of view in degrees.               *)
(***************************************************************************)
\* const margin = 0.5
margin == 500

\* Math.random() is drawn from 0, 1/RandSteps, .. (RandSteps-1)/RandSteps:
\* it returns a number of [0, 1), never 1.
RandSteps == 4

\* The cameras a configuration can give: new THREE.PerspectiveCamera(fov,
\* display.width / display.height, ..) at config.camera.position.z.
Cameras ==
  [fov : {30, 60, 90}, aspect : {56, 100, 178}, z : {10, 30, 50}]

\* Math.tan(degToRad(fov) / 2), in thousandths.
tanHalfFov(fov) ==
  CASE fov = 30 -> 268
    [] fov = 60 -> 577
    [] fov = 90 -> 1000

calculateScreenBoundaries(camera) ==
  LET height == (2 * tanHalfFov(camera.fov) * camera.z) \div 10
      width == (height * camera.aspect) \div 100
  IN [minX |-> margin - (width \div 2),
      maxX |-> (width \div 2) - margin,
      minZ |-> margin - (height \div 2),
      maxZ |-> (height \div 2) - margin]

\* THREE.MathUtils.randFloat: low + Math.random() * (high - low), with
\* Math.random() = k / RandSteps.
randFloat(low, high, k) == low + ((k * (high - low)) \div RandSteps)

\* The destination vector set by setRandomDestination; the direction and
\* the target rotation are functions of it and of the model's position.
\* chosen records that a destination has been set.
setRandomDestination(c, kx, kz) ==
  [c EXCEPT !.destination =
     [x |-> randFloat(c.boundaries.minX, c.boundaries.maxX, kx),
      y |-> 0,
      z |-> randFloat(c.boundaries.minZ, c.boundaries.maxZ, kz)],
     !.chosen = TRUE]

\* new CharacterController(model, camera, ..): the constructor computes the
\* rectangle; destination is new THREE.Vector3().
InitMove ==
  /\ NoStateMachine
  /\ NoRetargeting
  /\ load = "none"
  /\ play = "none"
  /\ \E camera \in Cameras :
       cc = [camera |-> camera,
             boundaries |-> calculateScreenBoundaries(camera),
             destination |-> [x |-> 0, y |-> 0, z |-> 0],
             chosen |-> FALSE]

\* startMoving() -> setRandomDestination()
SetRandomDestination ==
  /\ \E kx, kz \in 0 .. RandSteps - 1 :
       cc' = setRandomDestination(cc, kx, kz)
  /\ UNCHANGED <<smVars, rtVars, load, play>>

\* onWindowResize(): the rectangle is computed again from the camera.
OnWindowResize ==
  /\ cc' = [cc EXCEPT !.boundaries = calculateScreenBoundaries(cc.camera)]
  /\ UNCHANGED <<smVars, rtVars, load, play>>

NextMove == SetRandomDestination \/ OnWindowResize

SpecMove == InitMove /\ [][NextMove]_vars

\* C12: every destination chosen by setRandomDestination lies inside the
\* rectangle computed by calculateScreenBoundaries, minX <= x <= maxX and
\* minZ <= z <= maxZ, for every camera field of view, aspect ratio and
\* distance.
C12_DestinationInsideRectangle ==
  cc.chosen =>
    /\ cc.boundaries.minX <= cc.destination.x
    /\ cc.destination.x <= cc.boundaries.maxX
    /\ cc.boundaries.minZ <= cc.destination.z
    /\ cc.destination.z <= cc.boundaries.maxZ

(***************************************************************************)
(* The controller's walk: setInitialPosition puts the model at the origin, *)
(* startMoving picks a destination and the direction towards it, update    *)
(* adds one frame's move vector and clamps the position, stopMoving ends   *)
(* the walk.  Lengths are in thousandths, as in the rectangle above.  The  *)
(* direction is kept as the difference destination - position; the         *)
(* normalised vector of the code is that difference divided by its length. *)
(***************************************************************************)
\* The most position-changing update steps of a run.
MaxMoves == 2

\* distanceToTarget > 0.1
arrivalDistance == 100

\* One frame's length of travel, moveSpeed * deltaTime * 60, as a fraction
\* of the distance that lay between the model and the destination when the
\* destination was chosen: none, half of it, all of it, one and a half.
MoveFactors == {0, 1, 2, 3}

MoveDenominator == 2

\* THREE.MathUtils.clamp(value, min, max)
clamp(value, min, max) == Max(min, Min(max, value))

\* model.position.distanceTo(destination) > 0.1
farFromTarget(c) ==
  LET dx == c.position.x - c.destination.x
      dz == c.position.z - c.destination.z
  IN dx * dx + dz * dz > arrivalDistance * arrivalDistance

\* startMoving(): isMoving, the destination and the direction
\* destination - position
startMovingWalk(c, kx, kz) ==
  LET c1 == setRandomDestination([c EXCEPT !.isMoving = TRUE], kx, kz)
  IN [c1 EXCEPT !.direction = [x |-> c1.destination.x - c.position.x,
                               z |-> c1.destination.z - c.position.z]]

\* stopMoving()
stopMovingWalk(c) == [c EXCEPT !.isMoving = FALSE]

\* update(deltaTime), the movement branch: position.add(moveVector), then
\* the two clamps; on arrival stopMoving.
updateWalk(c, f) ==
  IF ~c.isMoving THEN c
  ELSE IF farFromTarget(c)
       THEN LET x == c.position.x + (c.direction.x * f) \div MoveDenominator
                z == c.position.z + (c.direction.z * f) \div MoveDenominator
            IN [c EXCEPT !.position =
                  [x |-> clamp(x, c.boundaries.minX, c.boundaries.maxX),
                   z |-> clamp(z, c.boundaries.minZ, c.boundaries.maxZ)],
                !.moves = @ + 1]
       ELSE stopMovingWalk(c)

\* new CharacterController(..) followed by setInitialPosition().
InitWalk ==
  /\ NoStateMachine
  /\ NoRetargeting
  /\ load = "none"
  /\ play = "none"
  /\ \E camera \in Cameras :
       cc = [camera |-> camera,
             boundaries |-> calculateScreenBoundaries(camera),
             destination |-> [x |-> 0, y |-> 0, z |-> 0],
             chosen |-> FALSE,
             position |-> [x |-> 0, z |-> 0],
             direction |-> [x |-> 0, z |-> 0],
             isMoving |-> FALSE,
             moves |-> 0]

StartMovingWalk ==
  /\ \E kx, kz \in {0, RandSteps - 1} :
       cc' = startMovingWalk(cc, kx, kz)
  /\ UNCHANGED <<smVars, rtVars, load, play>>

StopMovingWalk ==
  /\ cc' = stopMovingWalk(cc)
  /\ UNCHANGED <<smVars, rtVars, load, play>>

UpdateWalk ==
  /\ cc.moves < MaxMoves
  /\ \E f \in MoveFactors : cc' = updateWalk(cc, f)
  /\ UNCHANGED <<smVars, rtVars, load, play>>

NextWalk == StartMovingWalk \/ StopMovingWalk \/ UpdateWalk

SpecWalk == InitWalk /\ [][NextWalk]_vars

\* C24: in every state reached after setInitialPosition, whatever
\* startMoving, stopMoving and update steps follow and whatever the frame
\* delta, the model's position satisfies minX <= x <= maxX and
\* minZ <= z <= maxZ.
C24_PositionInsideRectangle ==
  /\ cc.boundaries.minX <= cc.position.x
  /\ cc.position.x <= cc.boundaries.maxX
  /\ cc.boundaries.minZ <= cc.position.z
  /\ cc.position.z <= cc.boundaries.maxZ

\* The same on the cameras whose rectangle is not inverted.
C24_InsideProperRectangle ==
  (cc.boundaries.minX <= cc.boundaries.maxX /\ cc.boundaries.minZ <= cc.boundaries.maxZ)
    => C24_PositionInsideRectangle

\* A walk has moved the model to the rectangle's edge.
C24_Walked ==
  /\ cc.moves > 0
  /\ cc.boundaries.minX < cc.boundaries.maxX
  /\ cc.position.x = cc.boundaries.maxX

(***************************************************************************)
(* The loader's manifest run: loadAnimations awaits loadAnimation for one  *)
(* entry after the other.  An entry carries, next to its type, what its    *)
(* file gives the three.js loader: a load error, or a parsed result of one *)
(* of the shapes loadAnimation inspects.                                   *)
(***************************************************************************)
\* The longest manifest.
MaxEntries == 2

\* type.toLowerCase()
toLowerCase(type) ==
  CASE type = "FBX" -> "fbx"
    [] type = "VRMA" -> "vrma"
    [] OTHER -> type

\* The manifest entries: FBXLoader gives a Group with an animations array;
\* GLTFLoader gives any of the shapes (a list is absent, empty or holds one
\* element; userData may be absent altogether); a type without a loader
\* has no result.
ManifestEntries ==
  LET failed == [parsed |-> FALSE, animations |-> "absent",
                 vrmAnimations |-> "noUserData", animation |-> "absent"]
  IN [type : {"fbx", "FBX"},
      result : {failed} \cup [parsed : {TRUE}, animations : {"empty", "one"},
                              vrmAnimations : {"absent"}, animation : {"absent"}]]
     \cup [type : {"vrma", "VRMA", "gltf", "glb"},
           result : {failed} \cup [parsed : {TRUE},
                                   animations : {"absent", "empty", "one"},
                                   vrmAnimations : {"noUserData", "absent", "empty", "one"},
                                   animation : {"absent", "one"}]]
     \cup [type : {"bvh"}, result : {failed}]

\* The clip that the file of manifest entry i holds in the given place.
FileClip(i, place) ==
  [name |-> <<"file" \o ToString(i), place>>, duration |-> 1,
   tracks |-> <<Track(<<"mixamorigHips", "position">>, FileValues(<<0, 1, 0>>))>>]

getLoaderByType(type) ==
  CASE toLowerCase(type) = "fbx" -> "fbxLoader"
    [] toLowerCase(type) \in {"vrma", "gltf", "glb"} -> "gltfLoader"
    [] OTHER -> "null"

\* AnimationLoader.loadAnimation(animConfig) for entry i of the manifest:
\* how the promise settles and with what (<< >> is undefined, <<c>> is c).
loadAnimation(l, v, animConfig, i) ==
  LET result == animConfig.result
      rejected == [settled |-> "reject", value |-> << >>]
      resolved(animation) == [settled |-> "resolve", value |-> animation]
  IN IF getLoaderByType(animConfig.type) = "null" THEN rejected
     ELSE IF ~result.parsed THEN rejected
     ELSE IF toLowerCase(animConfig.type) = "fbx"
     THEN IF result.animations = "one"
          THEN resolved(<<optimizeAnimationForVRM(l, v, FileClip(i, "animations[0]"))>>)
          ELSE rejected
     ELSE IF toLowerCase(animConfig.type) = "vrma"
     THEN IF result.animations = "one"
          THEN resolved(<<FileClip(i, "animations[0]")>>)
          ELSE IF result.vrmAnimations \in {"empty", "one"}
          THEN IF result.vrmAnimations = "one"
               THEN resolved(<<FileClip(i, "userData.vrmAnimations[0]")>>)
               ELSE resolved(<< >>)
          ELSE IF result.animation = "one"
          THEN resolved(<<FileClip(i, "animation")>>)
          ELSE resolved(<<[name |-> <<"dummy">>, duration |-> 1,
                           tracks |-> <<Track(<<"", "quaternion[0]">>,
                                              FileValues(<<0, 0>>))>>]>>)
     ELSE rejected

\* One round of loadAnimations' loop that lets the rejection escape.
loadAnimations_NoCatch(ld, outcome) ==
  LET config == ld.manifest[ld.loaded + 1]
  IN IF outcome.settled = "reject"
     THEN [ld EXCEPT !.settled = "rejected"]
     ELSE IF toLowerCase(config.type) = "fbx"
     THEN [ld EXCEPT !.loaded = @ + 1, !.animations.walk = outcome.value]
     ELSE [ld EXCEPT !.loaded = @ + 1,
                     !.animations.idle = Append(@, outcome.value)]

\* One round of AnimationLoader.loadAnimations' loop, for the entry after
\* the ones loaded and the outcome of its loadAnimation.
loadAnimations(ld, outcome) ==
  LET config == ld.manifest[ld.loaded + 1]
  IN IF outcome.settled = "reject"
     THEN [ld EXCEPT !.loaded = @ + 1]
     ELSE IF toLowerCase(config.type) = "fbx"
     THEN [ld EXCEPT !.loaded = @ + 1, !.animations.walk = outcome.value]
     ELSE [ld EXCEPT !.loaded = @ + 1,
                     !.animations.idle = Append(@, outcome.value)]

\* loadAnimations(animConfigs) is called: animations = {walk: null, idle: []}
InitLoad ==
  /\ NoStateMachine
  /\ cc = "none"
  /\ play = "none"
  /\ vrm = Model("vroid", HumanoidNames)
  /\ mapper = NoMapper
  /\ loader \in {NoLoader, loaderSetVRM(NoLoader)}
  /\ theClip = [name |-> <<"none">>, duration |-> 0, tracks |-> << >>]
  /\ last = NoLast
  /\ \E manifest \in UNION {[1 .. n -> ManifestEntries] : n \in 0 .. MaxEntries} :
       load = [manifest |-> manifest, loaded |-> 0, outcomes |-> << >>,
               animations |-> [walk |-> << >>, idle |-> << >>],
               settled |-> "pending"]

\* const animation = await this.loadAnimation(config); ... catch
LoadEntry ==
  /\ load.settled = "pending"
  /\ load.loaded < Len(load.manifest)
  /\ LET i == load.loaded + 1
         outcome == loadAnimation(loader, vrm, load.manifest[i], i)
     IN /\ load' = [loadAnimations(load, outcome) EXCEPT
                      !.outcomes = Append(@, outcome)]
        /\ loader' =
             IF toLowerCase(load.manifest[i].type) = "fbx"
                /\ outcome.settled = "resolve" /\ loader.vrmInstance # "null"
             THEN [loader EXCEPT !.vrmMapper =
                     << [cachedBoneMap |->
                           <<getMixamoToVRMBoneMap(loaderMapper(loader), vrm)>>] >>]
             ELSE loader
  /\ UNCHANGED <<smVars, vrm, mapper, theClip, last, cc, play>>

\* return animations;
ReturnAnimations ==
  /\ load.settled = "pending"
  /\ load.loaded = Len(load.manifest)
  /\ load' = [load EXCEPT !.settled = "resolved"]
  /\ UNCHANGED <<smVars, rtVars, cc, play>>

NextLoad == LoadEntry \/ ReturnAnimations

SpecLoad == InitLoad /\ [][NextLoad]_vars

(***************************************************************************)
(* initializeAnimations: the manifest is fetched, its entries are loaded   *)
(* and stored in the AnimationManager; where that throws, the walk clip    *)
(* and the idle clips of the runtime configuration are loaded instead.     *)
(* settled follows the run: "config" before the manifest is there,         *)
(* "pending" during loadAnimations, then "resolved" or "rejected", at last *)
(* "stored" or "fallback".                                                 *)
(***************************************************************************)
\* The runtime configuration names one walk file and at most this many
\* idle files.
MaxConfigIdle == 1

\* initializeAnimations() is called: what fetch(path) and response.json()
\* will give (a list, a JSON value that is no list, or a failure), and the
\* files of config.animations.
InitInitialize ==
  /\ NoStateMachine
  /\ cc = "none"
  /\ play = "none"
  /\ vrm = Model("vroid", HumanoidNames)
  /\ mapper = NoMapper
  /\ loader = loaderSetVRM(NoLoader)
  /\ theClip = [name |-> <<"none">>, duration |-> 0, tracks |-> << >>]
  /\ last = NoLast
  /\ \E fetch \in {"list", "notIterable", "failed"},
        file \in {<< >>} \cup {<<e>> : e \in ManifestEntries},
        walk \in {e \in ManifestEntries : e.type = "fbx"},
        idle \in UNION {[1 .. n -> {e \in ManifestEntries : e.type = "vrma"}] :
                          n \in 0 .. MaxConfigIdle} :
       load = [manifest |-> << >>, loaded |-> 0, outcomes |-> << >>,
               animations |-> [walk |-> << >>, idle |-> << >>],
               settled |-> "config",
               fetch |-> fetch, file |-> IF fetch = "list" THEN file ELSE << >>,
               config |-> [walk |-> walk, idle |-> idle],
               stored |-> [walk |-> << >>, idle |-> << >>]]

\* animConfigs = await this.animationLoader.loadAnimationsConfig(path): a
\* failed fetch or parse is caught and gives []; loadAnimations then starts,
\* and throws at once where animConfigs is not iterable.
LoadAnimationsConfig ==
  /\ load.settled = "config"
  /\ load' = [load EXCEPT
                !.manifest = IF load.fetch = "list" THEN load.file ELSE << >>,
                !.settled = IF load.fetch = "notIterable" THEN "rejected"
                            ELSE "pending"]
  /\ UNCHANGED <<smVars, rtVars, cc, play>>

\* loadAnimationsFromConfig stores what loadAnimations resolved with.
StoreAnimations ==
  /\ load.settled = "resolved"
  /\ load' = [load EXCEPT !.stored = load.animations, !.settled = "stored"]
  /\ UNCHANGED <<smVars, rtVars, cc, play>>

\* The catch of initializeAnimations: loadWalkAnimation, which throws where
\* its file does not load, then loadIdleAnimations, which goes on after an
\* idle file that does not load.
FallbackLoad ==
  /\ load.settled = "rejected"
  /\ LET walk == loadAnimation(loader, vrm, load.config.walk, 0)
         idle == [i \in DOMAIN load.config.idle |->
                    loadAnimation(loader, vrm, load.config.idle[i], i)]
         loadedIdle == SelectSeq(idle, LAMBDA o : o.settled = "resolve")
     IN load' = [load EXCEPT
                   !.settled = "fallback",
                   !.stored =
                     IF walk.settled = "reject" THEN @
                     ELSE [walk |-> walk.value,
                           idle |-> [k \in DOMAIN loadedIdle |-> loadedIdle[k].value]]]
  /\ UNCHANGED <<smVars, rtVars, cc, play>>

NextInitialize ==
  LoadAnimationsConfig \/ LoadEntry \/ ReturnAnimations \/ StoreAnimations \/ FallbackLoad

SpecInitialize == InitInitialize /\ [][NextInitialize]_vars

\* C23: if fetching or parsing the animation manifest fails, initialization
\* takes the fallback path: after initializeAnimations a failed manifest
\* does not leave the walk slot and the idle list empty when the files of
\* the runtime configuration load with a clip.
C23_FailedManifestFallsBack ==
  (/\ load.settled \in {"stored", "fallback"}
   /\ load.fetch = "failed"
   /\ load.config.walk.result.animations = "one"
   /\ load.config.idle # << >>
   /\ \A i \in DOMAIN load.config.idle :
        load.config.idle[i].result.animations = "one") =>
    /\ load.settled = "fallback"
    /\ load.stored.walk # << >>
    /\ load.stored.idle # << >>

(***************************************************************************)
(* Claims about the manifest run, checked under SpecLoad.                  *)
(***************************************************************************)
\* C13: for every manifest entry whose type is one of fbx, vrma, gltf, glb
\* and whose file is parsed successfully with an animation in it,
\* loadAnimations puts the clip in the result: walk is the clip of the last
\* such fbx entry (as optimised for the model), and the clips of all such
\* non-fbx entries are in idle, in manifest order.
C13_ParsedClipsInResult ==
  load.settled = "resolved" =>
    LET m == load.manifest
        withClip(i) == /\ toLowerCase(m[i].type) \in {"fbx", "vrma", "gltf", "glb"}
                       /\ m[i].result.parsed
                       /\ m[i].result.animations = "one"
        fbx == {i \in DOMAIN m : withClip(i) /\ toLowerCase(m[i].type) = "fbx"}
        others == SelectSeq([i \in DOMAIN m |-> i],
                            LAMBDA i : withClip(i) /\ toLowerCase(m[i].type) # "fbx")
        clips == [k \in DOMAIN others |-> <<FileClip(others[k], "animations[0]")>>]
    IN /\ fbx # {} =>
            /\ load.animations.walk # << >>
            /\ \E i \in fbx :
                 /\ \A j \in fbx : j <= i
                 /\ Head(load.animations.walk[1].name) = Head(FileClip(i, "").name)
       /\ SelectSeq(load.animations.idle,
                    LAMBDA a : \E k \in DOMAIN clips : a = clips[k]) = clips

\* C14: loadAnimations never fails wholesale because of one bad entry: for
\* every manifest and every subset of entries whose load fails, the
\* promise is not rejected, and where it resolves every entry that loaded
\* is in the result in its slot: walk is what the last fbx entry that
\* loaded resolved to (null where none did), idle is what the other entries
\* that loaded resolved to, in manifest order.
C14_NoWholesaleFailure ==
  /\ load.settled # "rejected"
  /\ load.settled = "resolved" =>
       LET m == load.manifest
           loaded(i) == load.outcomes[i].settled = "resolve"
           fbx == {i \in DOMAIN m : loaded(i) /\ toLowerCase(m[i].type) = "fbx"}
           others == SelectSeq([i \in DOMAIN m |-> i],
                               LAMBDA i : loaded(i) /\ toLowerCase(m[i].type) # "fbx")
       IN /\ Len(load.outcomes) = Len(m)
          /\ IF fbx = {} THEN load.animations.walk = << >>
             ELSE \E i \in fbx : /\ \A j \in fbx : j <= i
                                 /\ load.animations.walk = load.outcomes[i].value
          /\ load.animations.idle = [k \in DOMAIN others |-> load.outcomes[others[k]].value]

\* A manifest of which an entry failed and a later entry loaded, in both
\* slots, has been returned.
C14_Witness ==
  /\ load.settled = "resolved"
  /\ Len(load.manifest) = MaxEntries
  /\ load.outcomes[1].settled = "reject"
  /\ load.outcomes[MaxEntries].settled = "resolve"
  /\ load.outcomes[MaxEntries].value # << >>

\* C15: loadAnimation for a vrma entry whose file parses never resolves to
\* null or undefined: for every shape of the parser's result the promise
\* resolves with a clip.
C15_VrmaNeverNull ==
  \A i \in DOMAIN load.outcomes :
    (toLowerCase(load.manifest[i].type) = "vrma" /\ load.manifest[i].result.parsed) =>
      /\ load.outcomes[i].settled = "resolve"
      /\ load.outcomes[i].value # << >>

(***************************************************************************)
(* Playback: the AnimationManager's two entry points on a three.js mixer.  *)
(* An action of the mixer is the clip it plays and its playback fields;    *)
(* the mixer returns the same action for the same clip.  The model's pose  *)
(* is "posed" while a running action drives one of its bones and "rest"    *)
(* once none does: the mixer restores the bones when it deactivates the    *)
(* last action that uses them.                                             *)
(***************************************************************************)
\* The joints the tracks of a played clip name: a Mixamo joint, a VRoid node
\* and a secondary bone of the model.
PlayBones == {"mixamorigHips", "J_Bip_C_Hips", "J_Sec_Hair1_01"}

\* What a caller passes as animation: null, an object that is no clip (it
\* has no tracks array, like a VRMAnimation), or a clip of at most one
\* track.
PlayInputs ==
  LET clipOf(t) == [name |-> <<"clip">>, duration |-> 1, tracks |-> t]
  IN {[given |-> FALSE, hasTracks |-> FALSE, clip |-> clipOf(<< >>)],
      [given |-> TRUE, hasTracks |-> FALSE, clip |-> clipOf(<< >>)]}
     \cup {[given |-> TRUE, hasTracks |-> TRUE, clip |-> clipOf(t)] :
             t \in {<< >>} \cup {<<Track(<<b, "position">>, FileValues(<<0, 1, 0>>))>> :
                                   b \in PlayBones}}

\* new AnimationAction(mixer, clip): the fields of an action not yet played.
Action(c) ==
  [clip |-> c, time |-> 0, loop |-> "LoopRepeat", clampWhenFinished |-> FALSE,
   weight |-> 1, timeScale |-> 1, running |-> FALSE, fade |-> "none"]

\* mixer.clipAction(clip): the action the mixer holds for the clip, or a new
\* one.
clipAction(p, c) ==
  IF p.currentAnimation # << >> /\ p.currentAnimation[1].clip = c
  THEN p.currentAnimation[1]
  ELSE IF p.fadingOut # << >> /\ p.fadingOut[1].clip = c
  THEN p.fadingOut[1]
  ELSE Action(c)

\* The action drives a bone of the model: it runs and one of its tracks
\* names a node of the scene.
animates(a, v) ==
  /\ a # << >>
  /\ a[1].running
  /\ \E i \in DOMAIN a[1].clip.tracks : Head(a[1].clip.tracks[i].name) \in v.bones

\* VRMBoneAnalyzer.isVRMSpecificBone(boneName), on the bone names of the
\* tracks played: the one that contains 'J_Sec_' and 'Hair'.
isVRMSpecificBone(boneName) == boneName = "J_Sec_Hair1_01"

\* VRMBoneAnalyzer.validateAnimationTracks(vrm, animation)
validateAnimationTracks(v, animation) ==
  LET availableBoneNames == JointTable(v) \cup v.bones
      boneOf(track) == Head(track.name)
  IN [validTracks |->
        SelectSeq(animation.tracks,
                  LAMBDA t : ~isVRMSpecificBone(boneOf(t)) /\ boneOf(t) \in availableBoneNames),
      invalidTracks |->
        SelectSeq(animation.tracks,
                  LAMBDA t : ~isVRMSpecificBone(boneOf(t)) /\ boneOf(t) \notin availableBoneNames),
      vrmSpecificTracks |->
        SelectSeq(animation.tracks, LAMBDA t : isVRMSpecificBone(boneOf(t))),
      totalTracks |-> Len(animation.tracks)]

\* playAnimationWithFade without its try / catch.
playAnimationWithFade_NoTry(p, m, v, x) ==
  IF ~x.given THEN [play |-> p, mapper |-> m, ret |-> "returned"]
  ELSE [play |-> p, mapper |-> m,
        ret |-> IF ~p.mixer \/ ~x.hasTracks THEN "threw" ELSE "returned"]

\* AnimationManager.playAnimationWithFade(animation): the manager after the
\* call, and how the call ended ("caught": an exception reached the catch).
playAnimationWithFade(p, m, v, x) ==
  IF ~x.given THEN [play |-> p, mapper |-> m, ret |-> "returned"]
  ELSE
    LET faded == IF p.currentAnimation # << >>
                 THEN [p EXCEPT !.currentAnimation[1].fade = "out"]
                 ELSE p
        newAction == [clipAction(faded, x.clip) EXCEPT
                        !.time = 0, !.loop = "LoopRepeat",
                        !.clampWhenFinished = FALSE, !.fade = "in",
                        !.running = TRUE]
    IN IF ~p.mixer \/ ~x.hasTracks
       THEN [play |-> faded, mapper |-> m, ret |-> "caught"]
       ELSE [play |->
               [faded EXCEPT
                  !.fadingOut =
                    IF faded.currentAnimation # << >>
                       /\ faded.currentAnimation[1].clip # x.clip
                    THEN faded.currentAnimation
                    ELSE IF @ # << >> /\ @[1].clip = x.clip THEN << >> ELSE @,
                  !.currentAnimation = <<newAction>>],
             mapper |-> m, ret |-> "returned"]

\* VRMUtils.rotateVRM0(vrm), for a VRM 0.x model: the scene is turned to
\* face the camera, vrm.scene.rotation.y = Math.PI.
rotateVRM0(p) == [p EXCEPT !.sceneRotationY = "PI"]

\* AnimationManager.playAnimation(animation): the manager and the mapper
\* of window.vrmMapper after the call, and how the call ended.
amPlayAnimation(p, m, v, x) ==
  IF ~x.given THEN [play |-> p, mapper |-> m, ret |-> "returned"]
  ELSE IF ~p.mixer THEN [play |-> p, mapper |-> m, ret |-> "returned"]
  ELSE
    LET stopped ==
          IF p.currentAnimation = << >> THEN p
          ELSE [p EXCEPT !.currentAnimation[1].running = FALSE,
                         !.currentAnimation[1].time = 0,
                         !.currentAnimation[1].fade = "none",
                         !.pose = IF animates(p.fadingOut, v) THEN @ ELSE "rest"]
        caught == [play |-> IF stopped.hasVrm /\ stopped.window.VRMUtils
                            THEN rotateVRM0(stopped) ELSE stopped,
                   mapper |-> m, ret |-> "caught"]
        start(c, m2) ==
          [play |->
             [stopped EXCEPT
                !.currentAnimation =
                  <<[clipAction(stopped, c) EXCEPT
                       !.time = 0, !.fade = "none", !.loop = "LoopRepeat",
                       !.clampWhenFinished = FALSE, !.weight = 1,
                       !.timeScale = 1, !.running = TRUE]>>,
                !.fadingOut = IF @ # << >> /\ @[1].clip = c THEN << >> ELSE @],
           mapper |-> m2, ret |-> "returned"]
        validation == validateAnimationTracks(v, x.clip)
    IN IF ~x.hasTracks THEN caught
       ELSE IF p.window.vrmMapper /\ p.hasVrm
       THEN start(retargetAnimation(m, v, x.clip, << >>),
                  [m EXCEPT !.cachedBoneMap = <<getMixamoToVRMBoneMap(m, v)>>])
       ELSE IF p.hasVrm /\ p.window.VRMBoneAnalyzer
       THEN IF Len(validation.validTracks) = 0
            THEN [play |-> stopped, mapper |-> m, ret |-> "returned"]
            ELSE start([x.clip EXCEPT !.tracks =
                          SelectSeq(@, LAMBDA t :
                            \/ ~isVRMSpecificBone(Head(t.name))
                            \/ \E k \in DOMAIN validation.validTracks :
                                 validation.validTracks[k].name = t.name)],
                       m)
       ELSE start(x.clip, m)

\* mixer.update(delta) over the length of a fade: fades end (an action
\* faded out is disabled), running actions advance, the bones follow.
mixerUpdate(p, v) ==
  LET settle(a) ==
        IF a = << >> THEN a
        ELSE <<[a[1] EXCEPT !.fade = "none",
                            !.running = @ /\ a[1].fade # "out",
                            !.time = IF a[1].running /\ a[1].fade # "out" THEN 1 ELSE @]>>
      current == settle(p.currentAnimation)
  IN [p EXCEPT !.currentAnimation = current,
               !.fadingOut = << >>,
               !.pose = IF animates(current, v) THEN "posed"
                        ELSE IF p.currentAnimation # << >> \/ p.fadingOut # << >>
                        THEN "rest" ELSE @]

\* new AnimationManager(vrm, mixer), after loadVRM has rotated the model
\* and set (or not) the globals of window.
InitPlay ==
  /\ NoStateMachine
  /\ cc = "none"
  /\ load = "none"
  /\ vrm = Model("vroid", HumanoidNames)
  /\ mapper = NoMapper
  /\ loader = NoLoader
  /\ theClip = [name |-> <<"none">>, duration |-> 0, tracks |-> << >>]
  /\ last = NoLast
  /\ \E mixer, hasVrm \in BOOLEAN,
        window \in [vrmMapper : BOOLEAN, VRMBoneAnalyzer : BOOLEAN, VRMUtils : BOOLEAN] :
       play = [mixer |-> mixer, hasVrm |-> hasVrm, window |-> window,
               sceneRotationY |-> IF hasVrm THEN "PI" ELSE "0",
               currentAnimation |-> << >>, fadingOut |-> << >>,
               currentState |-> "idle", pose |-> "rest"]

\* animationManager.playAnimation(animation)
PlayAnimation ==
  /\ \E x \in PlayInputs :
       LET r == amPlayAnimation(play, mapper, vrm, x)
       IN /\ play' = r.play
          /\ mapper' = r.mapper
          /\ last' = [op |-> "playAnimation", input |-> x, ret |-> r.ret,
                      applied |-> << >>]
  /\ UNCHANGED <<smVars, vrm, loader, theClip, cc, load>>

\* animationManager.playAnimationWithFade(animation)
PlayAnimationWithFade ==
  /\ \E x \in PlayInputs :
       LET r == playAnimationWithFade(play, mapper, vrm, x)
       IN /\ play' = r.play
          /\ mapper' = r.mapper
          /\ last' = [op |-> "playAnimationWithFade", input |-> x, ret |-> r.ret,
                      applied |-> << >>]
  /\ UNCHANGED <<smVars, vrm, loader, theClip, cc, load>>

\* animate(): animationManager.update() -> mixer.update(delta)
MixerUpdate ==
  /\ play.mixer
  /\ play' = mixerUpdate(play, vrm)
  /\ last' = [op |-> "update", input |-> "", ret |-> "", applied |-> << >>]
  /\ UNCHANGED <<smVars, vrm, mapper, loader, theClip, cc, load>>

NextPlay == PlayAnimation \/ PlayAnimationWithFade \/ MixerUpdate

SpecPlay == InitPlay /\ [][NextPlay]_vars

(***************************************************************************)
(* Claims about playback, checked under SpecPlay.                          *)
(***************************************************************************)
\* C16: starting from the same playback state and given the same clip, the
\* hard path (playAnimation) and the fade path (playAnimationWithFade) end
\* in the same resulting playback state: the current action is the new
\* clip's action, started from time zero, with loop = repeat, weight 1.0
\* and time scale 1.0 (the fade that is still in progress apart).
C16_HardAndFadeConverge ==
  [][(/\ last'.op \in {"playAnimation", "playAnimationWithFade"}
      /\ last'.input.given
      /\ last'.input.hasTracks
      /\ play.mixer)
     => LET hard == amPlayAnimation(play, mapper, vrm, last'.input).play.currentAnimation
            fade == playAnimationWithFade(play, mapper, vrm, last'.input).play.currentAnimation
            started(a) == /\ a # << >>
                          /\ a[1].clip = last'.input.clip
                          /\ a[1].time = 0
                          /\ a[1].loop = "LoopRepeat"
                          /\ a[1].weight = 1
                          /\ a[1].timeScale = 1
                          /\ a[1].running
        IN started(hard) /\ started(fade)]_vars

\* C17: when no mixer is bound, a play call through either entry point is
\* a no-op: the current action, its running and fading status and the
\* animation state label are unchanged, and no exception escapes the call.
C17_NoMixerNoOp ==
  [][(last'.op \in {"playAnimation", "playAnimationWithFade"} /\ ~play.mixer)
     => (play' = play /\ last'.ret # "threw")]_vars

\* playAnimationWithFade has been called with a clip and no mixer bound,
\* and the TypeError of this.mixer.clipAction has been caught.
C17_Witness ==
  /\ last.op = "playAnimationWithFade"
  /\ last.input.given
  /\ last.input.hasTracks
  /\ ~play.mixer
  /\ last.ret = "caught"

\* C18: if applying a clip throws inside playAnimation, the exception is
\* caught and the model is reset to its rest pose.
C18_ExceptionResetsPose ==
  (last.op = "playAnimation" /\ last.ret \in {"caught", "threw"}) =>
    /\ last.ret = "caught"
    /\ play.pose = "rest"

\* C19: a low compatibility ratio never blocks playback: when fewer than
\* 10% of a clip's tracks are valid (zero valid tracks included),
\* playAnimation still starts the clip and it is the current action when
\* the call returns, on the mapper path and on the VRMBoneAnalyzer path.
C19_LowRatioStillPlays ==
  LET c == last.input.clip
      low(valid, total) == valid * 10 < total \/ valid = 0
      mapperPath == play.window.vrmMapper /\ play.hasVrm
      analyzerPath == ~mapperPath /\ play.hasVrm /\ play.window.VRMBoneAnalyzer
  IN (/\ last.op = "playAnimation"
      /\ last.input.given
      /\ last.input.hasTracks
      /\ play.mixer
      /\ \/ mapperPath /\ low(validateClip(vrm, c).valid, validateClip(vrm, c).total)
         \/ analyzerPath /\ low(Len(validateAnimationTracks(vrm, c).validTracks),
                                validateAnimationTracks(vrm, c).totalTracks))
     => /\ play.currentAnimation # << >>
        /\ play.currentAnimation[1].running
        /\ play.currentAnimation[1].time = 0

====
